---- MODULE Spec2Model ----
(***************************************************************************)
(* State-machine model of the business resolution pipeline of TomProject:  *)
(*   - the paginated directory search (BusinessFinder.search_yelp_         *)
(*     businesses and YelpAPIClient.search_businesses),                    *)
(*   - the cached cross-reference lookup (get_google_business_info),       *)
(*   - reconciliation (fast_verify_business, _process_single_business),    *)
(*   - the worker-pool batch (process_business_batch),                     *)
(*   - the store-if-absent sink of the search endpoint (dashboard.py),     *)
(*   - address verification (smarty_verification.py and                    *)
(*     verify_business_address),                                           *)
(*   - the pipeline (from_env, find_and_export_businesses).                *)
(* Python strings are sequences of characters, so that lower() and the     *)
(* cache-key formatting are computed, not assumed.                         *)
(***************************************************************************)
EXTENDS Integers, Sequences, FiniteSets, TLC

VARIABLES
    \* ---- directory search (one call at a time)
    client,          \* which search runs: "BusinessFinder" | "YelpAPIClient" | "none"
    s_pc,            \* "loop" | "break" | "returned" | "raised" | "idle"
    max_results,     \* params.max_results / max_results argument
    distance_miles,  \* params.distance_miles, in tenths of a mile
    radius_meters,   \* BusinessFinder: the radius sent with every page request
    all_businesses,  \* BusinessFinder: accumulated raw listings
    businesses,      \* YelpAPIClient: accumulated processed listings
    offset,          \* pagination offset of the next request
    limit,           \* min(50, max_results)
    requests,        \* history: every page request issued, in order
    returned,        \* the list handed back to the caller
    \* ---- cross-reference lookup and worker-pool batch (one BusinessFinder)
    google_cache,     \* self.google_cache: cache key -> cached value
    google_api_calls, \* self.google_api_calls
    task,             \* per caller/worker: position and locals of its call
    lookups,          \* number of lookups started by the direct caller
    first,            \* history: key -> how the first completed lookup ended
    error_cached,     \* history: keys whose cached None an except handler stored
    \* ---- reconciliation of one listing with one cross-reference answer
    rec_pc,           \* "input" | "verified" | "raised" | "idle"
    yelp_data,        \* the directory listing
    google_data,      \* the cross-reference record, or None
    verified_business, \* the VerifiedBusiness made of them
    \* ---- process_business_batch
    b_pc,                \* "running" | "returned" | "idle"
    yelp_businesses,     \* the batch
    verified_businesses, \* the results collected so far
    \* ---- result sink (search endpoint and businesses table)
    sink_pc,          \* "idle" | "loop" | "ok" | "error"
    db_businesses,    \* the rows of the businesses table, in insertion order
    sink_businesses,  \* businesses: the search result of the request
    sink_page,        \* page
    sink_size,        \* size
    sink_i,           \* position of the loop in the slice
    results,          \* the rows of the response
    ingests,          \* number of requests so far
    repeat,           \* history: the request resubmits the previous one
    stored_before,    \* history: rows in the table when the request began
    first_row,        \* history: yelp_id -> the row first committed for it
    \* ---- address verification of one listing
    vf_pc,            \* "idle" | "request" | "returned" | "raised"
    vf_env,           \* the verification credentials of the environment
    vf_business,      \* the caller's listing (the dict passed in)
    vf_passed,        \* history: the listing as it was passed in
    vf_returned,      \* the listing verify_business_address returned
    vf_requests,      \* verification requests issued by this call
    vf_response,      \* the verification service's answer
    vf_result,        \* what verify_address returned
    \* ---- the pipeline (from_env, find_and_export_businesses)
    p_pc,             \* "idle" | "env" | "no_finder" | "ready" | "search" |
                      \* "batch" | "returned" | "raised"
    p_env,            \* the API keys of the environment
    p_steps,          \* history: the steps that have run
    p_search_failed,  \* history: a page request of the search failed
    p_found,          \* history: listings the search returned
    p_outcome         \* what the caller of the pipeline sees

searchVars == <<client, s_pc, max_results, distance_miles, radius_meters,
                all_businesses, businesses, offset, limit, requests, returned>>

lookupVars == <<google_cache, google_api_calls, task, lookups, first,
                error_cached>>

recVars == <<rec_pc, yelp_data, google_data, verified_business>>

batchVars == <<b_pc, yelp_businesses, verified_businesses>>

sinkVars == <<sink_pc, db_businesses, sink_businesses, sink_page, sink_size,
              sink_i, results, ingests, repeat, stored_before, first_row>>

verifyVars == <<vf_pc, vf_env, vf_business, vf_passed, vf_returned,
                vf_requests, vf_response, vf_result>>

pipeVars == <<p_pc, p_env, p_steps, p_search_failed, p_found, p_outcome>>

vars == <<searchVars, lookupVars, recVars, batchVars, sinkVars, verifyVars,
          pipeVars>>

\* what the steps of one component leave alone
SearchOnly ==
    UNCHANGED <<lookupVars, recVars, batchVars, sinkVars, verifyVars, pipeVars>>
LookupOnly ==
    UNCHANGED <<searchVars, recVars, batchVars, sinkVars, verifyVars, pipeVars>>
ReconcileOnly ==
    UNCHANGED <<searchVars, lookupVars, batchVars, sinkVars, verifyVars, pipeVars>>
BatchOnly == UNCHANGED <<searchVars, recVars, sinkVars, verifyVars, pipeVars>>
SinkOnly ==
    UNCHANGED <<searchVars, lookupVars, recVars, batchVars, verifyVars, pipeVars>>
VerifyOnly ==
    UNCHANGED <<searchVars, lookupVars, recVars, batchVars, sinkVars, pipeVars>>
PipeOnly ==
    UNCHANGED <<searchVars, lookupVars, recVars, batchVars, sinkVars, verifyVars>>

(***************************************************************************)
(* Bounds of the model.                                                    *)
(***************************************************************************)
SmallMax == 3     \* small max_results values 1..SmallMax are explored
PageOver == 1     \* a page may hold up to PageOver listings more than asked
MaxLookups == 3   \* lookups a direct caller issues on one finder
MaxBatch == 2     \* listings in one batch
MaxIngests == 2   \* requests the search endpoint serves
MaxSinkBatch == 2 \* listings in the search result of one request

(***************************************************************************)
(* Program constants.                                                      *)
(***************************************************************************)
YelpPageCap == 50      \* business_finder.py:90  min(50, params.max_results)
DEFAULT_LIMIT == 50    \* config.py:50
max_workers == 10      \* business_finder.py:243
MetersPerMile == 160934 \* business_finder.py:86  1609.34, in hundredths

\* the smallest batch that does not fit the worker pool
PoolBatch == max_workers + 1

Min(a, b) == IF a < b THEN a ELSE b

\* Python slice s[:n] for n >= 0
Take(s, n) == SubSeq(s, 1, Min(n, Len(s)))

\* The values of max_results explored: small ones (a single page), the ones
\* around the page cap, and the ones that need a second and a third page.
MaxResultsChoices ==
    (1..SmallMax) \cup {YelpPageCap - 1, YelpPageCap, YelpPageCap + 1}
                  \cup {2 * YelpPageCap, 2 * YelpPageCap + 1}

\* params.distance_miles, in tenths of a mile: values in (0, 100] with and
\* without a fraction
MilesChoices == {5, 10, 20, 250, 1000}

\* line 86: int(params.distance_miles * 1609.34) for a distance of tenths/10
\* miles; int() drops the fraction of the product tenths * 160934 / 1000
MilesToMeters(tenths) == (tenths * MetersPerMile) \div 1000

\* The directory's answer to a request at offset o that yields k listings:
\* the listings at positions o+1 .. o+k of its result list.
RawPage(o, k) == [i \in 1..k |-> [id |-> o + i]]

\* YelpAPIClient._process_business: the raw listing re-keyed
ProcessBusiness(b) == [yelp_id |-> b.id]

(***************************************************************************)
(* BusinessFinder.search_yelp_businesses                                   *)
(***************************************************************************)
BF_Start ==
    /\ s_pc = "idle"
    /\ \E n \in MaxResultsChoices :
        /\ max_results' = n
        /\ limit' = Min(YelpPageCap, n)
    /\ \E m \in MilesChoices :
        /\ distance_miles' = m
        /\ radius_meters' = MilesToMeters(m)
    /\ client' = "BusinessFinder"
    /\ all_businesses' = <<>>
    /\ offset' = 0
    /\ requests' = <<>>
    /\ s_pc' = "loop"
    /\ UNCHANGED <<businesses, returned>>
    /\ SearchOnly

\* mutant: a short page does not end the loop, only an empty one does
BF_PageNoShortBreak ==
    /\ client = "BusinessFinder" /\ s_pc = "loop"
    /\ Len(all_businesses) < max_results
    /\ \E k \in 0..(limit + PageOver) :
        LET page == RawPage(offset, k) IN
        /\ requests' = Append(requests,
                [radius |-> radius_meters, offset |-> offset, limit |-> limit,
                 ok |-> TRUE, page |-> page])
        /\ IF k = 0
             THEN /\ s_pc' = "break"
                  /\ UNCHANGED <<all_businesses, offset>>
             ELSE /\ all_businesses' = all_businesses \o page
                  /\ offset' = offset + k
                  /\ s_pc' = "loop"
    /\ UNCHANGED <<client, max_results, distance_miles, radius_meters,
                   limit, businesses, returned>>
    /\ SearchOnly

\* mutant: the offset advances by the requested limit, not by the number
\* of listings the page held
BF_PageOffsetByLimit ==
    /\ client = "BusinessFinder" /\ s_pc = "loop"
    /\ Len(all_businesses) < max_results
    /\ \E k \in 0..(limit + PageOver) :
        LET page == RawPage(offset, k) IN
        /\ requests' = Append(requests,
                [radius |-> radius_meters, offset |-> offset, limit |-> limit,
                 ok |-> TRUE, page |-> page])
        /\ IF k = 0
             THEN /\ s_pc' = "break"
                  /\ UNCHANGED <<all_businesses, offset>>
             ELSE /\ all_businesses' = all_businesses \o page
                  /\ offset' = offset + limit
                  /\ s_pc' = IF k < limit THEN "break" ELSE "loop"
    /\ UNCHANGED <<client, max_results, distance_miles, radius_meters,
                   limit, businesses, returned>>
    /\ SearchOnly

\* One iteration of the while loop whose request succeeds with k listings.
BF_Page ==
    /\ client = "BusinessFinder" /\ s_pc = "loop"
    /\ Len(all_businesses) < max_results
    /\ \E k \in 0..(limit + PageOver) :
        LET page == RawPage(offset, k) IN
        /\ requests' = Append(requests,
                [radius |-> radius_meters, offset |-> offset, limit |-> limit,
                 ok |-> TRUE, page |-> page])
        /\ IF k = 0
             THEN /\ s_pc' = "break"
                  /\ UNCHANGED <<all_businesses, offset>>
             ELSE /\ all_businesses' = all_businesses \o page
                  /\ offset' = offset + k
                  /\ s_pc' = IF k < limit THEN "break" ELSE "loop"
    /\ UNCHANGED <<client, max_results, distance_miles, radius_meters,
                   limit, businesses, returned>>
    /\ SearchOnly

\* mutant: a failed page is retried instead of ending the pagination
BF_PageErrorRetry ==
    /\ client = "BusinessFinder" /\ s_pc = "loop"
    /\ Len(all_businesses) < max_results
    /\ Len(requests) < 4
    /\ requests' = Append(requests,
            [radius |-> radius_meters, offset |-> offset, limit |-> limit,
             ok |-> FALSE, page |-> <<>>])
    /\ UNCHANGED <<client, s_pc, max_results, distance_miles, radius_meters,
                   limit, all_businesses, businesses,
                   offset, returned>>
    /\ SearchOnly

\* One iteration whose request raises requests.exceptions.RequestException.
BF_PageError ==
    /\ client = "BusinessFinder" /\ s_pc = "loop"
    /\ Len(all_businesses) < max_results
    /\ requests' = Append(requests,
            [radius |-> radius_meters, offset |-> offset, limit |-> limit,
             ok |-> FALSE, page |-> <<>>])
    /\ s_pc' = "break"
    /\ UNCHANGED <<client, max_results, distance_miles, radius_meters,
                   limit, all_businesses, businesses,
                   offset, returned>>
    /\ SearchOnly

\* mutant: the final slice is forgotten
BF_TruncateForgotten(bs, n) == bs

\* all_businesses[:params.max_results]
BF_Truncate(bs, n) == Take(bs, n)

\* After the loop: all_businesses[:params.max_results]
BF_Return ==
    /\ client = "BusinessFinder"
    /\ \/ s_pc = "break"
       \/ s_pc = "loop" /\ Len(all_businesses) >= max_results
    /\ returned' = BF_Truncate(all_businesses, max_results)
    /\ s_pc' = "returned"
    /\ UNCHANGED <<client, max_results, distance_miles, radius_meters,
                   limit, all_businesses, businesses,
                   offset, requests>>
    /\ SearchOnly

(***************************************************************************)
(* YelpAPIClient.search_businesses                                         *)
(***************************************************************************)
\* api_key is YELP_API_KEY from the environment: present or not.
YC_Start ==
    /\ s_pc = "idle"
    /\ \E key \in BOOLEAN, n \in MaxResultsChoices :
        /\ max_results' = n
        /\ limit' = Min(DEFAULT_LIMIT, n)
        /\ s_pc' = IF key THEN "loop" ELSE "raised"
    /\ client' = "YelpAPIClient"
    /\ businesses' = <<>>
    /\ offset' = 0
    /\ requests' = <<>>
    /\ UNCHANGED <<distance_miles, radius_meters, all_businesses, returned>>
    /\ SearchOnly

\* for business in response['businesses']: stop at max_results, else append
\* the processed listing
RECURSIVE YC_Extend(_, _, _)
YC_Extend(acc, page, n) ==
    IF page = <<>> \/ Len(acc) >= n
      THEN acc
      ELSE YC_Extend(Append(acc, ProcessBusiness(Head(page))), Tail(page), n)

\* One iteration whose request returns a response with k listings.
YC_Page ==
    /\ client = "YelpAPIClient" /\ s_pc = "loop"
    /\ Len(businesses) < max_results
    /\ LET remaining == max_results - Len(businesses)
           current_limit == Min(limit, remaining)
       IN \E k \in 0..(current_limit + PageOver) :
            LET page == RawPage(offset, k) IN
            /\ requests' = Append(requests,
                  [offset |-> offset, limit |-> current_limit, ok |-> TRUE,
                   page |-> page])
            /\ businesses' = YC_Extend(businesses, page, max_results)
            /\ IF k < current_limit
                 THEN s_pc' = "break" /\ UNCHANGED offset
                 ELSE s_pc' = "loop" /\ offset' = offset + current_limit
    /\ UNCHANGED <<client, max_results, distance_miles, radius_meters,
                   limit, all_businesses, returned>>
    /\ SearchOnly

\* _make_search_request caught a RequestException and returned None
\* (if not response: break), or the call raised and except Exception broke.
YC_PageError ==
    /\ client = "YelpAPIClient" /\ s_pc = "loop"
    /\ Len(businesses) < max_results
    /\ LET remaining == max_results - Len(businesses)
           current_limit == Min(limit, remaining)
       IN requests' = Append(requests,
              [offset |-> offset, limit |-> current_limit, ok |-> FALSE,
               page |-> <<>>])
    /\ s_pc' = "break"
    /\ UNCHANGED <<client, max_results, distance_miles, radius_meters,
                   limit, all_businesses, businesses,
                   offset, returned>>
    /\ SearchOnly

\* return businesses[:max_results]
YC_Return ==
    /\ client = "YelpAPIClient"
    /\ \/ s_pc = "break"
       \/ s_pc = "loop" /\ Len(businesses) >= max_results
    /\ returned' = Take(businesses, max_results)
    /\ s_pc' = "returned"
    /\ UNCHANGED <<client, max_results, distance_miles, radius_meters,
                   limit, all_businesses, businesses,
                   offset, requests>>
    /\ SearchOnly

SearchReset ==
    /\ s_pc \in {"returned", "raised"}
    /\ s_pc' = "idle"
    /\ client' = "none"
    /\ max_results' = 1 /\ limit' = 1 /\ offset' = 0
    /\ distance_miles' = 10 /\ radius_meters' = 0
    /\ all_businesses' = <<>> /\ businesses' = <<>>
    /\ requests' = <<>> /\ returned' = <<>>
    /\ SearchOnly

(***************************************************************************)
(* Python values.  A string is a sequence of characters; None and a        *)
(* missing dictionary key are sentinels no string equals.                  *)
(***************************************************************************)
None == <<"None">>
Missing == <<"Missing">>

\* dict.get(key, default) on a field that may be missing
Get(v, default) == IF v = Missing THEN default ELSE v

\* Python truthiness of a string-or-None value
Truthy(v) == v # None /\ v # Missing /\ v # <<>>

LowerChar(c) == IF c = "A" THEN "a" ELSE IF c = "B" THEN "b" ELSE c

\* str.lower()
Lower(str) == [i \in 1..Len(str) |-> LowerChar(str[i])]

\* mutant: the key is built from the address alone
CacheKeyAddressOnly(business_name, address) == Lower(address)

\* f"{business_name.lower()}_{address.lower()}"
CacheKey(business_name, address) ==
    Lower(business_name) \o <<"_">> \o Lower(address)

\* business names and addresses of the explored listings
Names == {<<"A">>, <<"a">>, <<"a", "_", "b">>}
Addresses == {<<"b">>, <<"b", "_", "b">>}

\* what the mapping API reports of a place
BusinessStatuses == {Missing, <<"OPERATIONAL">>, <<"CLOSED_PERMANENTLY">>}
GooglePhones == {Missing, None, <<>>, <<"615-555-0100">>}

\* get_google_business_info's Optional[Dict]: None, or the detail record
GoogleNone ==
    [kind |-> "None", business_status |-> Missing,
     formatted_phone_number |-> Missing]
GoogleDict(status, phone) ==
    [kind |-> "dict", business_status |-> status,
     formatted_phone_number |-> phone]
GoogleRecords ==
    {GoogleDict(st, ph) : st \in BusinessStatuses, ph \in GooglePhones}

\* the detail records the mapping API answers with in the lookup runs:
\* the empty result, a closed place with a phone, an open place without
GoogleDetails ==
    {GoogleDict(Missing, Missing),
     GoogleDict(<<"CLOSED_PERMANENTLY">>, <<"615-555-0100">>),
     GoogleDict(<<"OPERATIONAL">>, Missing)}

\* a directory listing (Yelp business dict)
NoLocation == [kind |-> "None", address1 |-> Missing, city |-> Missing]
Location(address1, city) == [kind |-> "dict", address1 |-> address1, city |-> city]
YelpListing(id, name, location, phone) ==
    [id |-> id, name |-> name, location |-> location, phone |-> phone]
NoListing == YelpListing(None, None, NoLocation, None)

\* a future's result: None, or a VerifiedBusiness
NoBusiness ==
    [kind |-> "None", name |-> None, address |-> None, phone_number |-> None,
     city |-> None, source |-> None, confidence_level |-> None,
     business_status |-> None]

\* the locals of a caller that is not inside a call
IdleTask ==
    [pc |-> "idle", listing |-> NoListing, business_name |-> None,
     address |-> None, cache_key |-> <<>>, google_data |-> GoogleNone,
     upstream |-> 0, failed |-> FALSE, prior |-> FALSE, exc |-> FALSE,
     hit |-> FALSE, found |-> FALSE, poisoned |-> FALSE,
     result |-> NoBusiness]

EmptyMap == [k \in {} |-> GoogleNone]

\* m[k] = v for a Python dict m
Put(m, k, v) == [x \in DOMAIN m \cup {k} |-> IF x = k THEN v ELSE m[x]]

\* the finder holds no call: state after BusinessFinder.__init__
LookupIdle ==
    /\ google_cache = EmptyMap
    /\ google_api_calls = 0
    /\ task = <<>>
    /\ lookups = 0
    /\ first = EmptyMap
    /\ error_cached = {}

(***************************************************************************)
(* BusinessFinder.get_google_business_info, as steps of the caller t.      *)
(* The caller blocks in each upstream call; the steps between two calls    *)
(* run without interruption, the unlocked self.google_api_calls += 1 of    *)
(* lines 152 and 164 included: updates lost between two workers are not    *)
(* explored, and the counter never exceeds the calls that returned.        *)
(***************************************************************************)
\* history: the first completed lookup of a key since the last clear, with
\* the name and address it was called with
Record(t, key, value, failed) ==
    IF key \in DOMAIN first
      THEN first
      ELSE Put(first, key, [value |-> value, failed |-> failed,
                            business_name |-> task[t].business_name,
                            address |-> task[t].address])

\* the lookup returns value to its caller
LookupReturn(t, value) ==
    [task EXCEPT ![t].pc = "lookup_returned", ![t].google_data = value]

\* mutant: the cache is not consulted, every lookup goes upstream
LookupEnterNoCacheCheck(t) ==
    /\ task[t].pc = "lookup"
    /\ LET n == task[t].business_name
           a == task[t].address
       IN IF n = None \/ a = None
            THEN task' = [task EXCEPT ![t].pc = "raised", ![t].exc = TRUE]
            ELSE LET key == CacheKey(n, a) IN
                 task' = [task EXCEPT ![t].pc = "places",
                                      ![t].cache_key = key,
                                      ![t].hit = key \in DOMAIN google_cache,
                                      ![t].prior = key \in DOMAIN first]
    /\ UNCHANGED <<google_cache, google_api_calls, lookups, first, error_cached>>
    /\ LookupOnly

\* lines 141-145: build the key, return the cached value on a hit
LookupEnter(t) ==
    /\ task[t].pc = "lookup"
    /\ LET n == task[t].business_name
           a == task[t].address
       IN IF n = None \/ a = None
            THEN \* None.lower(): AttributeError, outside the try
                 /\ task' = [task EXCEPT ![t].pc = "raised", ![t].exc = TRUE]
                 /\ UNCHANGED first
            ELSE LET key == CacheKey(n, a) IN
                 IF key \in DOMAIN google_cache
                   THEN /\ task' = [LookupReturn(t, google_cache[key])
                                      EXCEPT ![t].cache_key = key,
                                             ![t].hit = TRUE,
                                             ![t].poisoned = key \in error_cached,
                                             ![t].prior = key \in DOMAIN first]
                        /\ first' = Record(t, key, google_cache[key], FALSE)
                   ELSE /\ task' = [task EXCEPT ![t].pc = "places",
                                                ![t].cache_key = key,
                                                ![t].prior = key \in DOMAIN first]
                        /\ UNCHANGED first
    /\ UNCHANGED <<google_cache, google_api_calls, lookups, error_cached>>
    /\ LookupOnly

\* line 150 raises: the place search failed
PlacesRaises(t) ==
    /\ task[t].pc = "places"
    /\ task' = [task EXCEPT ![t].pc = "except",
                            ![t].upstream = @ + 1,
                            ![t].failed = TRUE]
    /\ UNCHANGED <<google_cache, google_api_calls, lookups, first, error_cached>>
    /\ LookupOnly

\* mutant: a search without results is not cached
PlacesNoResultsUncached(t) ==
    /\ task[t].pc = "places"
    /\ google_api_calls' = google_api_calls + 1
    /\ task' = [LookupReturn(t, GoogleNone) EXCEPT ![t].upstream = @ + 1]
    /\ first' = Record(t, task[t].cache_key, GoogleNone, FALSE)
    /\ UNCHANGED <<google_cache, lookups, error_cached>>
    /\ LookupOnly

\* lines 150-154, 172-174: the place search has no results; None is cached
PlacesNoResults(t) ==
    /\ task[t].pc = "places"
    /\ google_api_calls' = google_api_calls + 1
    /\ google_cache' = Put(google_cache, task[t].cache_key, GoogleNone)
    /\ task' = [LookupReturn(t, GoogleNone) EXCEPT ![t].upstream = @ + 1]
    /\ first' = Record(t, task[t].cache_key, GoogleNone, FALSE)
    /\ error_cached' = error_cached \ {task[t].cache_key}
    /\ UNCHANGED lookups
    /\ LookupOnly

\* lines 150-156: the place search found a place
PlacesFound(t) ==
    /\ task[t].pc = "places"
    /\ google_api_calls' = google_api_calls + 1
    /\ task' = [task EXCEPT ![t].pc = "details", ![t].upstream = @ + 1,
                            ![t].found = TRUE]
    /\ UNCHANGED <<google_cache, lookups, first, error_cached>>
    /\ LookupOnly

\* line 159 raises: the detail fetch failed
DetailsRaises(t) ==
    /\ task[t].pc = "details"
    /\ task' = [task EXCEPT ![t].pc = "except",
                            ![t].upstream = @ + 1,
                            ![t].failed = TRUE]
    /\ UNCHANGED <<google_cache, google_api_calls, lookups, first, error_cached>>
    /\ LookupOnly

\* lines 159-170: the detail record is cached and returned
DetailsFound(t) ==
    /\ task[t].pc = "details"
    /\ \E result \in GoogleDetails :
        /\ google_cache' = Put(google_cache, task[t].cache_key, result)
        /\ task' = [LookupReturn(t, result) EXCEPT ![t].upstream = @ + 1]
        /\ first' = Record(t, task[t].cache_key, result, FALSE)
    /\ google_api_calls' = google_api_calls + 1
    /\ error_cached' = error_cached \ {task[t].cache_key}
    /\ UNCHANGED lookups
    /\ LookupOnly

\* mutant: the handler returns None without caching it
LookupExceptUncached(t) ==
    /\ task[t].pc = "except"
    /\ task' = LookupReturn(t, GoogleNone)
    /\ first' = Record(t, task[t].cache_key, GoogleNone, TRUE)
    /\ UNCHANGED <<google_cache, google_api_calls, lookups, error_cached>>
    /\ LookupOnly

\* lines 176-179: except Exception: cache None, return None
LookupExcept(t) ==
    /\ task[t].pc = "except"
    /\ google_cache' = Put(google_cache, task[t].cache_key, GoogleNone)
    /\ task' = LookupReturn(t, GoogleNone)
    /\ first' = Record(t, task[t].cache_key, GoogleNone, TRUE)
    /\ error_cached' = error_cached \cup {task[t].cache_key}
    /\ UNCHANGED <<google_api_calls, lookups>>
    /\ LookupOnly

\* a caller invokes get_google_business_info(business_name, address)
CallLookup(t) ==
    /\ task[t].pc = "idle"
    /\ lookups < MaxLookups
    /\ lookups' = lookups + 1
    /\ \E n \in Names \cup {None}, a \in Addresses \cup {None} :
        task' = [task EXCEPT ![t] = [IdleTask EXCEPT !.pc = "lookup",
                                                     !.business_name = n,
                                                     !.address = a]]
    /\ UNCHANGED <<google_cache, google_api_calls, first, error_cached>>
    /\ LookupOnly

\* the caller has taken the lookup's return value (or its exception)
CallerResumes(t) ==
    /\ task[t].pc \in {"lookup_returned", "raised"}
    /\ task' = [task EXCEPT ![t] = IdleTask]
    /\ UNCHANGED <<google_cache, google_api_calls, lookups, first, error_cached>>
    /\ LookupOnly

\* clear_google_cache(), between two lookups
ClearGoogleCache ==
    /\ \A t \in DOMAIN task : task[t].pc = "idle"
    /\ google_cache # EmptyMap
    /\ google_cache' = EmptyMap
    /\ first' = EmptyMap
    /\ error_cached' = {}
    /\ UNCHANGED <<google_api_calls, task, lookups>>
    /\ LookupOnly

(***************************************************************************)
(* Reconciliation: BusinessFinder.fast_verify_business and the             *)
(* VerifiedBusiness built by _process_single_business.                     *)
(***************************************************************************)
Str(s) == <<s>>

MissingLocation == [kind |-> "Missing", address1 |-> Missing, city |-> Missing]

\* the directory listings reconciliation is explored on
YelpNames == Names \cup {None, Missing}
YelpLocations ==
    {NoLocation, MissingLocation}
        \cup {Location(a, Str("Nashville")) : a \in Addresses \cup {None}}
YelpPhones == {Missing, None, <<>>, <<"+16155550199">>}
YelpListings ==
    {YelpListing(Str("y1"), n, l, p) :
        n \in YelpNames, l \in YelpLocations, p \in YelpPhones}

\* yelp_data.get("location", {}).get(field): the location or {} when the key
\* is absent; a location of None has no get
LocationGet(location, field) ==
    IF location.kind = "dict" THEN Get(location[field], None) ELSE None

\* fast_verify_business raises AttributeError on a listing whose location
\* is None (lines 196-197)
FastVerifyRaises(yelp) == yelp.location.kind = "None"

\* if google_data: a dict is true when it is not empty
GoogleTruthy(g) ==
    /\ g.kind = "dict"
    /\ g.business_status # Missing \/ g.formatted_phone_number # Missing

\* mutant: Google's phone replaces the listing's whenever Google has one
FastVerifyGooglePhoneFirst(yelp, google) ==
    LET closed == /\ GoogleTruthy(google)
                  /\ google.business_status = Str("CLOSED_PERMANENTLY")
        phone == Get(yelp.phone, None)
    IN [verified_name |-> Get(yelp.name, None),
        verified_address |-> LocationGet(yelp.location, "address1"),
        verified_city |-> LocationGet(yelp.location, "city"),
        verified_phone |->
            IF GoogleTruthy(google)
                 /\ Truthy(google.formatted_phone_number)
              THEN google.formatted_phone_number
              ELSE phone,
        business_status |-> IF closed THEN Str("closed") ELSE Str("unknown"),
        confidence_level |-> IF closed THEN Str("high") ELSE Str("medium")]

\* mutant: a closed place is flagged, its confidence is left at the default
FastVerifyNoUpgrade(yelp, google) ==
    LET closed == /\ GoogleTruthy(google)
                  /\ google.business_status = Str("CLOSED_PERMANENTLY")
        phone == Get(yelp.phone, None)
    IN [verified_name |-> Get(yelp.name, None),
        verified_address |-> LocationGet(yelp.location, "address1"),
        verified_city |-> LocationGet(yelp.location, "city"),
        verified_phone |->
            IF GoogleTruthy(google) /\ ~Truthy(phone)
                 /\ Truthy(google.formatted_phone_number)
              THEN google.formatted_phone_number
              ELSE phone,
        business_status |-> IF closed THEN Str("closed") ELSE Str("unknown"),
        confidence_level |-> Str("medium")]

\* mutant: any cross-reference record raises the confidence to high
FastVerifyHighOnMatch(yelp, google) ==
    LET closed == /\ GoogleTruthy(google)
                  /\ google.business_status = Str("CLOSED_PERMANENTLY")
        phone == Get(yelp.phone, None)
    IN [verified_name |-> Get(yelp.name, None),
        verified_address |-> LocationGet(yelp.location, "address1"),
        verified_city |-> LocationGet(yelp.location, "city"),
        verified_phone |->
            IF GoogleTruthy(google) /\ ~Truthy(phone)
                 /\ Truthy(google.formatted_phone_number)
              THEN google.formatted_phone_number
              ELSE phone,
        business_status |-> IF closed THEN Str("closed") ELSE Str("unknown"),
        confidence_level |->
            IF GoogleTruthy(google) THEN Str("high") ELSE Str("medium")]

\* fast_verify_business (lines 193-228), for a listing it does not raise on
FastVerify(yelp, google) ==
    LET yelp_info ==
            [name |-> Get(yelp.name, None),
             address |-> LocationGet(yelp.location, "address1"),
             city |-> LocationGet(yelp.location, "city"),
             phone |-> Get(yelp.phone, None)]
        \* Yelp data as primary source
        primary ==
            [verified_name |-> yelp_info.name,
             verified_address |-> yelp_info.address,
             verified_city |-> yelp_info.city,
             verified_phone |-> yelp_info.phone,
             business_status |-> Str("unknown"),
             confidence_level |-> Str("medium")]
        \* check for closed business
        checked ==
            IF google.business_status = Str("CLOSED_PERMANENTLY")
              THEN [primary EXCEPT !.business_status = Str("closed"),
                                   !.confidence_level = Str("high")]
              ELSE primary
        \* use Google phone if Yelp doesn't have one
        backfilled ==
            IF ~Truthy(checked.verified_phone)
                 /\ Truthy(google.formatted_phone_number)
              THEN [checked EXCEPT
                      !.verified_phone = google.formatted_phone_number]
              ELSE checked
    IN IF GoogleTruthy(google) THEN backfilled ELSE primary

\* lines 283-301: the VerifiedBusiness of a verified listing
MakeVerifiedBusiness(verified) ==
    [kind |-> "VerifiedBusiness",
     name |-> verified.verified_name,
     address |-> verified.verified_address,
     phone_number |-> verified.verified_phone,
     city |-> verified.verified_city,
     source |-> Str("Yelp+Google_Fast_Verified_") \o verified.confidence_level,
     confidence_level |-> verified.confidence_level,
     business_status |-> verified.business_status]

\* no reconciliation in progress
ReconcileIdle ==
    /\ rec_pc = "idle"
    /\ yelp_data = NoListing
    /\ google_data = GoogleNone
    /\ verified_business = NoBusiness

\* fast_verify_business(yelp_data, google_data) and the VerifiedBusiness
\* made of its result; a listing it raises on yields none
Reconcile ==
    /\ rec_pc = "input"
    /\ IF FastVerifyRaises(yelp_data)
         THEN /\ rec_pc' = "raised"
              /\ UNCHANGED verified_business
         ELSE /\ rec_pc' = "verified"
              /\ verified_business' =
                    MakeVerifiedBusiness(FastVerify(yelp_data, google_data))
    /\ UNCHANGED <<yelp_data, google_data>>
    /\ ReconcileOnly

(***************************************************************************)
(* BusinessFinder.process_business_batch: one task per listing on a        *)
(* ThreadPoolExecutor; the workers interleave at their upstream calls.     *)
(***************************************************************************)
\* the listings batches are made of: two with the same cache key, one with
\* another key, and two malformed ones (a name of None, a location of None)
BatchListings ==
    {YelpListing(Str("y1"), <<"A">>, Location(<<"b">>, Str("Nashville")), Missing),
     YelpListing(Str("y2"), <<"a">>, Location(<<"b">>, Str("Nashville")),
                 <<"+16155550199">>),
     YelpListing(Str("y3"), <<"a", "_", "b">>, Location(<<"b">>, Str("Nashville")),
                 <<>>),
     YelpListing(Str("y5"), None, Location(<<"b">>, Str("Nashville")), Missing),
     YelpListing(Str("y6"), <<"A">>, NoLocation, Missing)}

RECURSIVE SeqsUpTo(_, _)
\* the sequences over S of length at most n
SeqsUpTo(S, n) ==
    IF n = 0 THEN {<<>>}
    ELSE LET shorter == SeqsUpTo(S, n - 1)
         IN shorter \cup {Append(q, x) : q \in {r \in shorter : Len(r) = n - 1},
                                         x \in S}

\* no batch in progress
BatchIdle ==
    /\ b_pc = "idle"
    /\ yelp_businesses = <<>>
    /\ verified_businesses = <<>>

\* tasks a worker is running
Running ==
    {t \in DOMAIN task : task[t].pc \notin {"queued", "finished", "collected"}}

\* mutant: a queued task starts whether or not a worker is free
StartTaskUnbounded(t) ==
    /\ b_pc = "running"
    /\ task[t].pc = "queued"
    /\ \A u \in 1..(t - 1) : task[u].pc # "queued"
    /\ LET yelp_business == task[t].listing IN
       IF yelp_business.location.kind = "None"
         THEN task' = [task EXCEPT ![t].pc = "raised", ![t].exc = TRUE]
         ELSE task' = [task EXCEPT
                ![t].pc = "lookup",
                ![t].business_name = Get(yelp_business.name, <<>>),
                ![t].address =
                    IF yelp_business.location.kind = "dict"
                      THEN Get(yelp_business.location.address1, <<>>)
                      ELSE <<>>]
    /\ UNCHANGED <<google_cache, google_api_calls, lookups, first, error_cached>>
    /\ BatchOnly
    /\ UNCHANGED <<b_pc, yelp_businesses, verified_businesses>>

\* line 247 and lines 272-278: a free worker takes the oldest queued task
\* and runs _process_single_business up to the lookup call
StartTask(t) ==
    /\ b_pc = "running"
    /\ task[t].pc = "queued"
    /\ \A u \in 1..(t - 1) : task[u].pc # "queued"
    /\ Cardinality(Running) < max_workers
    /\ LET yelp_business == task[t].listing IN
       IF yelp_business.location.kind = "None"
         THEN \* None.get("address1", ""): AttributeError
              task' = [task EXCEPT ![t].pc = "raised", ![t].exc = TRUE]
         ELSE task' = [task EXCEPT
                ![t].pc = "lookup",
                ![t].business_name = Get(yelp_business.name, <<>>),
                ![t].address =
                    IF yelp_business.location.kind = "dict"
                      THEN Get(yelp_business.location.address1, <<>>)
                      ELSE <<>>]
    /\ UNCHANGED <<google_cache, google_api_calls, lookups, first, error_cached>>
    /\ BatchOnly
    /\ UNCHANGED <<b_pc, yelp_businesses, verified_businesses>>

\* lines 281-303: the lookup returned; verify and build the VerifiedBusiness
SingleVerify(t) ==
    /\ b_pc = "running"
    /\ task[t].pc = "lookup_returned"
    /\ task' = [task EXCEPT
          ![t].pc = "finished",
          ![t].result = MakeVerifiedBusiness(
                            FastVerify(task[t].listing, task[t].google_data))]
    /\ UNCHANGED <<google_cache, google_api_calls, lookups, first, error_cached>>
    /\ BatchOnly
    /\ UNCHANGED <<b_pc, yelp_businesses, verified_businesses>>

\* lines 305-307: except Exception: log, return None
SingleExcept(t) ==
    /\ b_pc = "running"
    /\ task[t].pc = "raised"
    /\ task' = [task EXCEPT ![t].pc = "finished",
                            ![t].exc = TRUE,
                            ![t].result = NoBusiness]
    /\ UNCHANGED <<google_cache, google_api_calls, lookups, first, error_cached>>
    /\ BatchOnly
    /\ UNCHANGED <<b_pc, yelp_businesses, verified_businesses>>

\* mutant: every future's result is appended, None included
CollectUnfiltered(t) ==
    /\ b_pc = "running"
    /\ task[t].pc = "finished"
    /\ task' = [task EXCEPT ![t].pc = "collected"]
    /\ verified_businesses' = Append(verified_businesses, task[t].result)
    /\ UNCHANGED <<google_cache, google_api_calls, lookups, first, error_cached>>
    /\ BatchOnly
    /\ UNCHANGED <<b_pc, yelp_businesses>>

\* lines 251-258: as_completed yields the finished future; its result is
\* appended if it is not None
Collect(t) ==
    /\ b_pc = "running"
    /\ task[t].pc = "finished"
    /\ task' = [task EXCEPT ![t].pc = "collected"]
    /\ verified_businesses' =
          IF task[t].result.kind = "VerifiedBusiness"
            THEN Append(verified_businesses, task[t].result)
            ELSE verified_businesses
    /\ UNCHANGED <<google_cache, google_api_calls, lookups, first, error_cached>>
    /\ BatchOnly
    /\ UNCHANGED <<b_pc, yelp_businesses>>

\* mutant: the batch returns as soon as one future was collected
BatchReturnEarly ==
    /\ b_pc = "running"
    /\ \E t \in DOMAIN task : task[t].pc = "collected"
    /\ b_pc' = "returned"
    /\ UNCHANGED <<yelp_businesses, verified_businesses>>
    /\ UNCHANGED lookupVars
    /\ BatchOnly

\* line 260: every future was collected; the executor has shut down
BatchReturn ==
    /\ b_pc = "running"
    /\ \A t \in DOMAIN task : task[t].pc = "collected"
    /\ b_pc' = "returned"
    /\ UNCHANGED <<yelp_businesses, verified_businesses>>
    /\ UNCHANGED lookupVars
    /\ BatchOnly

(***************************************************************************)
(* The result sink: the store-if-absent loop of the search endpoint        *)
(* (leadgen/views/dashboard.py, search_businesses) over the businesses     *)
(* table (leadgen/models.py, Business).  One request at a time; every      *)
(* listing is committed on its own.                                        *)
(***************************************************************************)
\* the listings the directory search hands to the endpoint: two with the same
\* id and different data, one with another id, one without an id
SinkListings ==
    {YelpListing(Str("y1"), <<"A">>, Location(<<"b">>, Str("Nashville")), Missing),
     YelpListing(Str("y1"), <<"a">>, Location(<<"b">>, Str("Nashville")),
                 <<"+16155550199">>),
     YelpListing(Str("y2"), <<"A">>, Location(<<"b">>, Str("Nashville")), <<>>),
     YelpListing(Missing, <<"a">>, Location(<<"b">>, Str("Nashville")), Missing)}

\* what verify_business_address leaves in the listing: nothing (no verifier,
\* or an incomplete address), or the verifier's verdict ("invalid" stands
\* for the unverified statuses, which the endpoint stores the same way)
Verifications == {"skipped", "verified", "invalid"}

\* businesses[start_idx:end_idx], lines 109-112
PageSlice(bs, page, size) ==
    LET start_idx == (page - 1) * size
        end_idx == start_idx + size
    IN SubSeq(bs, start_idx + 1, Min(end_idx, Len(bs)))

\* Business.query.filter_by(yelp_id=...).first(): the rows with that id; a
\* comparison with NULL matches no row
ExistingBusiness(rows, yelp_id) ==
    IF yelp_id = None THEN {}
    ELSE {i \in DOMAIN rows : rows[i].yelp_id = yelp_id}

\* lines 122-144: the Business row of a listing
NewBusiness(business, verification) ==
    [yelp_id |-> Get(business.id, None),
     name |-> Get(business.name, None),
     address |-> Get(business.location.address1, <<>>),
     phone |-> Get(business.phone, <<>>),
     address_verified |-> verification = "verified",
     address_verification_status |->
         IF verification = "skipped" THEN "pending" ELSE verification]

\* mutant: the columns are nullable
CommitFailsUniqueOnly(rows, row) ==
    /\ row.yelp_id # None
    /\ \E i \in DOMAIN rows : rows[i].yelp_id = row.yelp_id

\* db.session.commit() raises IntegrityError: yelp_id and name are NOT NULL,
\* yelp_id is UNIQUE (models.py lines 48-49)
CommitFails(rows, row) ==
    \/ row.yelp_id = None
    \/ row.name = None
    \/ \E i \in DOMAIN rows : rows[i].yelp_id = row.yelp_id

\* mutant: a known identifier is updated in place with the new listing
StoreOrUpdate(rows, business, verification) ==
    LET existing == ExistingBusiness(rows, Get(business.id, None))
    IN IF existing # {}
         THEN [i \in DOMAIN rows |->
                  IF i \in existing THEN NewBusiness(business, verification)
                                    ELSE rows[i]]
         ELSE Append(rows, NewBusiness(business, verification))

\* lines 114-147: the table after the listing was handled, when the commit
\* succeeds: unchanged for a known identifier, one more row otherwise
StoreIfAbsent(rows, business, verification) ==
    IF ExistingBusiness(rows, Get(business.id, None)) # {}
      THEN rows
      ELSE Append(rows, NewBusiness(business, verification))

\* no request in progress, an empty table
SinkIdle ==
    /\ sink_pc = "idle"
    /\ db_businesses = <<>>
    /\ sink_businesses = <<>> /\ sink_page = 1 /\ sink_size = 1
    /\ sink_i = 1
    /\ results = <<>>
    /\ ingests = 0
    /\ repeat = FALSE
    /\ stored_before = 0
    /\ first_row = [k \in {} |-> 0]

\* a request arrives: the search yields bs, the request names page and size
StartIngest ==
    /\ sink_pc \in {"idle", "ok", "error"}
    /\ ingests < MaxIngests
    /\ ingests' = ingests + 1
    /\ \E bs \in SeqsUpTo(SinkListings, MaxSinkBatch), page \in 1..2,
          size \in {1, MaxSinkBatch} :
        /\ sink_businesses' = bs
        /\ sink_page' = page
        /\ sink_size' = size
        /\ repeat' = /\ sink_pc \in {"ok", "error"}
                     /\ bs = sink_businesses
                     /\ page = sink_page
                     /\ size = sink_size
    /\ sink_pc' = "loop"
    /\ sink_i' = 1
    /\ results' = <<>>
    /\ stored_before' = Len(db_businesses)
    /\ UNCHANGED <<db_businesses, first_row>>
    /\ SinkOnly

\* one iteration of the loop, lines 112-149
IngestListing ==
    /\ sink_pc = "loop"
    /\ LET slice == PageSlice(sink_businesses, sink_page, sink_size) IN
       /\ sink_i <= Len(slice)
       /\ LET business == slice[sink_i]
              existing == ExistingBusiness(db_businesses, Get(business.id, None))
          IN \E verification \in Verifications :
               LET row == NewBusiness(business, verification)
                   rows == StoreIfAbsent(db_businesses, business, verification)
               IN IF existing = {} /\ CommitFails(db_businesses, row)
                    THEN \* IntegrityError, caught at line 166: HTTP 500
                         /\ sink_pc' = "error"
                         /\ UNCHANGED <<db_businesses, sink_i, results, first_row>>
                    ELSE /\ db_businesses' = rows
                         /\ results' = Append(results,
                               IF existing = {} THEN row
                               ELSE db_businesses[CHOOSE i \in existing : TRUE])
                         /\ first_row' =
                               IF existing = {}
                                 THEN [k \in DOMAIN first_row \cup {row.yelp_id} |->
                                         IF k = row.yelp_id THEN row
                                                            ELSE first_row[k]]
                                 ELSE first_row
                         /\ sink_i' = sink_i + 1
                         /\ UNCHANGED sink_pc
    /\ UNCHANGED <<sink_businesses, sink_page, sink_size, ingests, repeat,
                   stored_before>>
    /\ SinkOnly

\* lines 151-164: the loop is over, the response is sent
IngestRespond ==
    /\ sink_pc = "loop"
    /\ sink_i > Len(PageSlice(sink_businesses, sink_page, sink_size))
    /\ sink_pc' = "ok"
    /\ UNCHANGED <<db_businesses, sink_businesses, sink_page, sink_size, sink_i,
                   results, ingests, repeat, stored_before, first_row>>
    /\ SinkOnly

(***************************************************************************)
(* Address verification: SmartyStreetsVerifier.verify_address,             *)
(* _calculate_confidence, get_smarty_verifier and                          *)
(* BusinessFinder.verify_business_address.  A confidence is kept in        *)
(* thousandths (1.0 is 1000), so that the products are exact.              *)
(***************************************************************************)
PyTrue == <<"True">>
PyFalse == <<"False">>

\* dict.get(key, default) of an analysis flag, as a condition
FlagTruthy(v) == Get(v, PyFalse) = PyTrue

\* confidence_map.get(dpv_match, 0.0), lines 135-142
ConfidenceMap(dpv_match) ==
    IF dpv_match = Str("Y") THEN 1000
    ELSE IF dpv_match = Str("S") THEN 900
    ELSE IF dpv_match = Str("D") THEN 800
    ELSE 0

\* min(max(c, 0.0), 1.0)
Clamp(c) == IF c < 0 THEN 0 ELSE IF c > 1000 THEN 1000 ELSE c

\* the analysis block of a candidate; kind "Missing" is a candidate without
NoAnalysis ==
    [kind |-> "Missing", dpv_match_code |-> Missing, dpv_vacant |-> Missing,
     dpv_cmra |-> Missing, dpv_footnotes |-> Missing]
Analysis(code, vacant, cmra, footnotes) ==
    [kind |-> "dict", dpv_match_code |-> code, dpv_vacant |-> vacant,
     dpv_cmra |-> cmra, dpv_footnotes |-> footnotes]

MatchCodes == {Missing, Str("Y"), Str("S"), Str("D"), Str("N"), <<>>}
Flags == {Missing, PyFalse, PyTrue}
Footnotes == {Missing, Str("AA#")}

Analyses ==
    {NoAnalysis} \cup
    {Analysis(c, v, m, f) : c \in MatchCodes, v \in Flags, m \in Flags,
                            f \in Footnotes}

\* mutant: the vacant factor is applied to every address
CalculateConfidenceAlwaysVacant(analysis) ==
    LET base == ConfidenceMap(Get(analysis.dpv_match_code, Str("N")))
        vacant == (base * 7) \div 10
        cmra == IF FlagTruthy(analysis.dpv_cmra) THEN (vacant * 9) \div 10
                                                 ELSE vacant
    IN Clamp(cmra)

\* _calculate_confidence, lines 131-151 (result.get('analysis', {}) is the
\* analysis block, or {} when the candidate has none)
CalculateConfidence(analysis) ==
    LET base == ConfidenceMap(Get(analysis.dpv_match_code, Str("N")))
        vacant == IF FlagTruthy(analysis.dpv_vacant) THEN (base * 7) \div 10
                                                     ELSE base
        cmra == IF FlagTruthy(analysis.dpv_cmra) THEN (vacant * 9) \div 10
                                                 ELSE vacant
    IN Clamp(cmra)

\* a candidate of the response: its analysis, delivery line and components
\* (components: the city name, or no components block)
Candidate(analysis, line, city) ==
    [analysis |-> analysis, delivery_line_1 |-> line, city_name |-> city]
Candidates ==
    {Candidate(a, l, c) : a \in Analyses, l \in {Missing, Str("1 Main St")},
                          c \in {Missing, Str("Nashville")}}

\* what requests.get / raise_for_status / response.json() come to:
\*   "request_exception": a RequestException (connection, timeout, HTTP
\*       status, or an undecodable body with requests >= 2.27)
\*   "value_error": an undecodable body with an older requests
\*   "object": a JSON object instead of a list (empty or not)
\*   "candidates": a JSON list of candidates (empty or not)
Response(kind, empty, candidate) ==
    [kind |-> kind, empty |-> empty, first |-> candidate]
AnyCandidate == Candidate(NoAnalysis, Missing, Missing)
Responses ==
    {Response("request_exception", TRUE, AnyCandidate),
     Response("value_error", TRUE, AnyCandidate),
     Response("object", TRUE, AnyCandidate),
     Response("object", FALSE, AnyCandidate),
     Response("candidates", TRUE, AnyCandidate)}
    \cup {Response("candidates", FALSE, c) : c \in Candidates}

\* the dictionary verify_address returns; raised marks an exception that
\* leaves verify_address instead
VerificationResult(verified, status, confidence, address, city, error) ==
    [raised |-> FALSE, verified |-> verified, status |-> status,
     confidence |-> confidence, verified_address |-> address,
     verified_city |-> city, error |-> error]
ErrorResult(error) ==
    VerificationResult(FALSE, "error", 0, None, None, error)
Raised == [ErrorResult(None) EXCEPT !.raised = TRUE]

\* mutant: only the plain confirmation counts as deliverable
DeliverableConfirmedOnly(code) == code = Str("Y")

\* line 71: dpv_match_code in ['Y', 'S', 'D']
Deliverable(code) == code \in {Str("Y"), Str("S"), Str("D")}

\* what the try block of verify_address comes to, lines 41-94:
\* "RequestException", "Exception", or "return" with the value returned
TryBlock(response) ==
    IF response.kind = "request_exception"
      THEN [outcome |-> "RequestException", value |-> ErrorResult(None)]
    ELSE IF response.kind = "value_error"
      THEN [outcome |-> "Exception", value |-> ErrorResult(None)]
    ELSE IF response.empty
      THEN \* if not results
           [outcome |-> "return",
            value |-> VerificationResult(FALSE, "invalid", 0, None, None,
                                         Str("No results returned"))]
    ELSE IF response.kind = "object"
      THEN \* results[0] on a dict: KeyError
           [outcome |-> "Exception", value |-> ErrorResult(None)]
    ELSE LET result == response.first
             analysis == result.analysis
         IN IF Deliverable(analysis.dpv_match_code)
              THEN [outcome |-> "return",
                    value |-> VerificationResult(TRUE, "verified",
                                 CalculateConfidence(analysis),
                                 Get(result.delivery_line_1, <<>>),
                                 Get(result.city_name, <<>>), None)]
              ELSE [outcome |-> "return",
                    value |-> VerificationResult(FALSE, "invalid", 0, None, None,
                                 Get(analysis.dpv_footnotes,
                                     Str("Address not deliverable")))]

\* mutant: only RequestException is handled
VerifyAddressTransportOnly(response) ==
    LET try == TryBlock(response)
    IN IF try.outcome = "RequestException"
         THEN ErrorResult(<<"API Error: ", "e">>)
       ELSE IF try.outcome = "Exception"
         THEN Raised
       ELSE try.value

\* verify_address, lines 40-119: the try block and its two handlers
VerifyAddress(response) ==
    LET try == TryBlock(response)
    IN IF try.outcome = "RequestException"
         THEN ErrorResult(<<"API Error: ", "e">>)
       ELSE IF try.outcome = "Exception"
         THEN ErrorResult(<<"Unexpected error: ", "e">>)
       ELSE try.value

\* the values of SMARTY_STREETS_AUTH_ID / SMARTY_STREETS_AUTH_TOKEN
EnvValues == {Missing, <<>>, Str("secret")}

\* get_smarty_verifier, lines 182-189: a verifier, or None
GetSmartyVerifier(env) == Truthy(env.auth_id) /\ Truthy(env.auth_token)

\* the location of a listing: absent, or a dict of address fields
NoAddress ==
    [kind |-> "Missing", address1 |-> Missing, city |-> Missing,
     state |-> Missing, zip_code |-> Missing]
Address(address1, city, state, zip_code) ==
    [kind |-> "dict", address1 |-> address1, city |-> city, state |-> state,
     zip_code |-> zip_code]
AddressFields == {Missing, None, <<>>, Str("x")}
Addressed ==
    {NoAddress} \cup
    {Address(a, c, s, z) : a \in AddressFields, c \in AddressFields,
                           s \in AddressFields, z \in AddressFields}

\* the verification keys verify_business_address adds to a listing
VerificationKeys ==
    {"address_verified", "address_verification_status", "verified_address",
     "verified_city", "verified_state", "verified_zip_code",
     "verification_confidence"}

\* a listing handed to verify_business_address: its location and the
\* verification keys it holds (keys names the ones present)
Unverified(location) ==
    [location |-> location, keys |-> {}, address_verified |-> FALSE,
     address_verification_status |-> "", verified_address |-> None,
     verified_city |-> None, verification_confidence |-> 0,
     verification_error |-> None]

\* lines 518-527: the verification data written into the listing
AddVerification(business, result) ==
    [business EXCEPT
        !.keys = @ \cup VerificationKeys \cup
                 (IF Truthy(result.error) THEN {"verification_error"} ELSE {}),
        !.address_verified = result.verified,
        !.address_verification_status = result.status,
        !.verified_address = result.verified_address,
        !.verified_city = result.verified_city,
        !.verification_confidence = result.confidence,
        !.verification_error =
            IF Truthy(result.error) THEN result.error ELSE @]

\* line 510: all([street, city, state, zip_code])
CompleteAddress(location) ==
    /\ Truthy(Get(location.address1, <<>>))
    /\ Truthy(Get(location.city, <<>>))
    /\ Truthy(Get(location.state, <<>>))
    /\ Truthy(Get(location.zip_code, <<>>))

\* mutant: the street alone decides whether the address is complete
VerifiableStreetOnly(env, business) ==
    GetSmartyVerifier(env) /\ Truthy(Get(business.location.address1, <<>>))

\* lines 499-512: a verifier exists and the address is complete
Verifiable(env, business) ==
    GetSmartyVerifier(env) /\ CompleteAddress(business.location)

\* no verification in progress
VerifyIdle ==
    /\ vf_pc = "idle"
    /\ vf_env = [auth_id |-> Missing, auth_token |-> Missing]
    /\ vf_business = Unverified(NoAddress)
    /\ vf_passed = Unverified(NoAddress)
    /\ vf_returned = Unverified(NoAddress)
    /\ vf_requests = 0
    /\ vf_response = Response("candidates", TRUE, AnyCandidate)
    /\ vf_result = ErrorResult(None)

\* verify_business_address(business) up to the request, lines 499-515
VerifyStart ==
    /\ vf_pc = "idle"
    /\ \E a \in EnvValues, k \in EnvValues, location \in Addressed :
        LET env == [auth_id |-> a, auth_token |-> k]
            business == Unverified(location)
        IN /\ vf_env' = env
           /\ vf_business' = business
           /\ vf_passed' = business
           /\ IF Verifiable(env, business)
                THEN /\ vf_pc' = "request"
                     /\ vf_requests' = 1
                     /\ UNCHANGED vf_returned
                ELSE /\ vf_pc' = "returned"
                     /\ vf_requests' = 0
                     /\ vf_returned' = business
    /\ UNCHANGED <<vf_response, vf_result>>
    /\ VerifyOnly

\* the service answers: verify_address returns, lines 515-529 run
VerifyRespond ==
    /\ vf_pc = "request"
    /\ \E response \in Responses :
        LET result == VerifyAddress(response) IN
        /\ vf_response' = response
        /\ vf_result' = result
        /\ IF result.raised
             THEN /\ vf_pc' = "raised"
                  /\ UNCHANGED <<vf_business, vf_returned>>
             ELSE /\ vf_pc' = "returned"
                  /\ vf_business' = AddVerification(vf_business, result)
                  /\ vf_returned' = AddVerification(vf_business, result)
    /\ UNCHANGED <<vf_env, vf_passed, vf_requests>>
    /\ VerifyOnly

\* the caller has taken the listing
VerifyReset ==
    /\ vf_pc \in {"returned", "raised"}
    /\ vf_pc' = "idle"
    /\ vf_env' = [auth_id |-> Missing, auth_token |-> Missing]
    /\ vf_business' = Unverified(NoAddress)
    /\ vf_passed' = Unverified(NoAddress)
    /\ vf_returned' = Unverified(NoAddress)
    /\ vf_requests' = 0
    /\ vf_response' = Response("candidates", TRUE, AnyCandidate)
    /\ vf_result' = ErrorResult(None)
    /\ VerifyOnly

(***************************************************************************)
(* The pipeline: BusinessFinder.from_env and find_and_export_businesses,   *)
(* which runs the directory search, the worker-pool batch and the export   *)
(* one after the other on one finder.                                      *)
(***************************************************************************)
\* the outcome a caller sees: nothing yet, a returned string, an exception
NoOutcome == [kind |-> "none", value |-> <<>>, exc |-> ""]
Returns(value) == [kind |-> "returned", value |-> value, exc |-> ""]
Raises(exc) == [kind |-> "raised", value |-> <<>>, exc |-> exc]

\* mutant: only the directory key is required
FromEnvDirectoryKeyOnly(env) ==
    IF ~Truthy(env.YELP_API_KEY) THEN Raises("ValueError") ELSE NoOutcome

\* from_env, lines 476-487: ValueError, or no exception and a finder
FromEnv(env) ==
    IF ~Truthy(env.YELP_API_KEY) THEN Raises("ValueError")
    ELSE IF ~Truthy(env.GOOGLE_API_KEY) THEN Raises("ValueError")
    ELSE NoOutcome

\* the listings the directory hands to the pipeline: two with the same name
\* and address up to case, and one without a location
PipeListings ==
    {YelpListing(Str("y1"), <<"A">>, Location(<<"b">>, Str("Nashville")), Missing),
     YelpListing(Str("y2"), <<"a">>, Location(<<"b">>, Str("Nashville")),
                 <<"+16155550199">>),
     YelpListing(Str("y6"), <<"A">>, NoLocation, Missing)}

\* the sequences over S of length n
SeqsOfLen(S, n) == {q \in SeqsUpTo(S, n) : Len(q) = n}

\* export_to_excel, lines 365-444: "" for an empty list; else the workbook
\* is saved under filename, or wb.save raises
ExportToExcel(verified, saved) ==
    IF verified = <<>> THEN Returns(<<>>)
    ELSE IF saved THEN Returns(Str("businesses.xlsx"))
    ELSE Raises("OSError")

\* lines 344-350: the performance log divides by len(verified_businesses)
LogAndReturn(verified, excel_file) ==
    IF excel_file.kind = "raised" THEN excel_file
    ELSE IF Len(verified) = 0 THEN Raises("ZeroDivisionError")
    ELSE excel_file

\* no pipeline run
PipeIdle ==
    /\ p_pc = "idle"
    /\ p_env = [YELP_API_KEY |-> Missing, GOOGLE_API_KEY |-> Missing]
    /\ p_steps = {}
    /\ p_search_failed = FALSE
    /\ p_found = 0
    /\ p_outcome = NoOutcome

\* BusinessFinder.from_env()
PipeFromEnv ==
    /\ p_pc = "env"
    /\ p_pc' = IF FromEnv(p_env).kind = "raised" THEN "no_finder" ELSE "ready"
    /\ p_outcome' = FromEnv(p_env)
    /\ UNCHANGED <<p_env, p_steps, p_search_failed, p_found>>
    /\ PipeOnly

\* find_and_export_businesses, lines 322-330: the counters are reset and
\* search_yelp_businesses starts (lines 88-90)
PipeStartRun ==
    /\ p_pc = "ready"
    /\ p_pc' = "search"
    /\ p_steps' = p_steps \cup {"search"}
    /\ google_api_calls' = 0
    /\ google_cache' = EmptyMap
    /\ first' = EmptyMap
    /\ error_cached' = {}
    /\ \E n \in 1..MaxBatch :
        /\ max_results' = n
        /\ limit' = Min(YelpPageCap, n)
    /\ distance_miles' = 50
    /\ radius_meters' = MilesToMeters(50)
    /\ client' = "BusinessFinder"
    /\ all_businesses' = <<>>
    /\ offset' = 0
    /\ requests' = <<>>
    /\ s_pc' = "loop"
    /\ UNCHANGED <<businesses, returned, task, lookups>>
    /\ UNCHANGED <<p_env, p_search_failed, p_found, p_outcome>>
    /\ UNCHANGED <<recVars, batchVars, sinkVars, verifyVars>>

\* lines 330-338: the search has returned; "" for an empty list, else the
\* listings (whose content is the directory's) go to process_business_batch
PipeAfterSearch ==
    /\ p_pc = "search"
    /\ s_pc = "returned"
    /\ p_search_failed' = \E i \in DOMAIN requests : ~requests[i].ok
    /\ p_found' = Len(returned)
    /\ IF returned = <<>>
         THEN /\ p_pc' = "returned"
              /\ p_outcome' = Returns(<<>>)
              /\ UNCHANGED <<p_steps, batchVars, task>>
         ELSE /\ p_pc' = "batch"
              /\ p_steps' = p_steps \cup {"lookup"}
              /\ \E bs \in SeqsOfLen(PipeListings, Len(returned)) :
                   /\ yelp_businesses' = bs
                   /\ task' = [i \in 1..Len(bs) |->
                                 [IdleTask EXCEPT !.pc = "queued",
                                                  !.listing = bs[i]]]
              /\ b_pc' = "running"
              /\ verified_businesses' = <<>>
              /\ UNCHANGED p_outcome
    /\ client' = "none" /\ s_pc' = "idle"
    /\ max_results' = 1 /\ limit' = 1 /\ offset' = 0
    /\ distance_miles' = 10 /\ radius_meters' = 0
    /\ all_businesses' = <<>> /\ businesses' = <<>>
    /\ requests' = <<>> /\ returned' = <<>>
    /\ UNCHANGED <<google_cache, google_api_calls, lookups, first, error_cached>>
    /\ UNCHANGED p_env
    /\ UNCHANGED <<recVars, sinkVars, verifyVars>>

\* lines 338-350: the batch has returned; export, log, return
PipeExport ==
    /\ p_pc = "batch"
    /\ b_pc = "returned"
    /\ p_steps' = p_steps \cup {"export"}
    /\ \E saved \in BOOLEAN :
        LET excel_file == ExportToExcel(verified_businesses, saved)
            outcome == LogAndReturn(verified_businesses, excel_file)
        IN /\ p_outcome' = outcome
           /\ p_pc' = outcome.kind
    /\ UNCHANGED <<p_env, p_search_failed, p_found>>
    /\ PipeOnly

InitSearch ==
    /\ client = "none" /\ s_pc = "idle"
    /\ max_results = 1 /\ limit = 1 /\ offset = 0
    /\ distance_miles = 10 /\ radius_meters = 0
    /\ all_businesses = <<>> /\ businesses = <<>>
    /\ requests = <<>> /\ returned = <<>>
    /\ LookupIdle
    /\ ReconcileIdle
    /\ BatchIdle
    /\ SinkIdle
    /\ VerifyIdle
    /\ PipeIdle

NextSearch ==
    \/ BF_Start \/ BF_Page \/ BF_PageError \/ BF_Return
    \/ YC_Start \/ YC_Page \/ YC_PageError \/ YC_Return
    \/ SearchReset

SpecSearch == InitSearch /\ [][NextSearch]_vars

SearchIdle ==
    /\ client = "none" /\ s_pc = "idle"
    /\ max_results = 1 /\ limit = 1 /\ offset = 0
    /\ distance_miles = 10 /\ radius_meters = 0
    /\ all_businesses = <<>> /\ businesses = <<>>
    /\ requests = <<>> /\ returned = <<>>

InitLookup ==
    /\ SearchIdle
    /\ ReconcileIdle
    /\ BatchIdle
    /\ SinkIdle
    /\ VerifyIdle
    /\ PipeIdle
    /\ google_cache = EmptyMap
    /\ google_api_calls = 0
    /\ task = <<IdleTask>>
    /\ lookups = 0
    /\ first = EmptyMap
    /\ error_cached = {}

NextLookup ==
    \/ \E t \in DOMAIN task : CallLookup(t)
    \/ \E t \in DOMAIN task : LookupEnter(t)
    \/ \E t \in DOMAIN task : PlacesRaises(t)
    \/ \E t \in DOMAIN task : PlacesNoResults(t)
    \/ \E t \in DOMAIN task : PlacesFound(t)
    \/ \E t \in DOMAIN task : DetailsRaises(t)
    \/ \E t \in DOMAIN task : DetailsFound(t)
    \/ \E t \in DOMAIN task : LookupExcept(t)
    \/ \E t \in DOMAIN task : CallerResumes(t)
    \/ ClearGoogleCache

SpecLookup == InitLookup /\ [][NextLookup]_vars

InitReconcile ==
    /\ SearchIdle
    /\ LookupIdle
    /\ rec_pc = "input"
    /\ yelp_data \in YelpListings
    /\ google_data \in GoogleRecords \cup {GoogleNone}
    /\ verified_business = NoBusiness
    /\ BatchIdle
    /\ SinkIdle
    /\ VerifyIdle
    /\ PipeIdle

NextReconcile == Reconcile

SpecReconcile == InitReconcile /\ [][NextReconcile]_vars

InitBatch ==
    /\ SearchIdle
    /\ ReconcileIdle
    /\ SinkIdle
    /\ VerifyIdle
    /\ PipeIdle
    /\ b_pc = "running"
    /\ yelp_businesses \in SeqsUpTo(BatchListings, MaxBatch)
    /\ verified_businesses = <<>>
    /\ google_cache = EmptyMap
    /\ google_api_calls = 0
    /\ task = [i \in 1..Len(yelp_businesses) |->
                  [IdleTask EXCEPT !.pc = "queued",
                                   !.listing = yelp_businesses[i]]]
    /\ lookups = 0
    /\ first = EmptyMap
    /\ error_cached = {}

NextBatch ==
    \/ \E t \in DOMAIN task : StartTask(t)
    \/ \E t \in DOMAIN task : LookupEnter(t)
    \/ \E t \in DOMAIN task : PlacesRaises(t)
    \/ \E t \in DOMAIN task : PlacesNoResults(t)
    \/ \E t \in DOMAIN task : PlacesFound(t)
    \/ \E t \in DOMAIN task : DetailsRaises(t)
    \/ \E t \in DOMAIN task : DetailsFound(t)
    \/ \E t \in DOMAIN task : LookupExcept(t)
    \/ \E t \in DOMAIN task : SingleVerify(t)
    \/ \E t \in DOMAIN task : SingleExcept(t)
    \/ \E t \in DOMAIN task : Collect(t)
    \/ BatchReturn

SpecBatch == InitBatch /\ [][NextBatch]_vars

InitSink ==
    /\ SearchIdle
    /\ LookupIdle
    /\ ReconcileIdle
    /\ BatchIdle
    /\ SinkIdle
    /\ VerifyIdle
    /\ PipeIdle

NextSink == StartIngest \/ IngestListing \/ IngestRespond

SpecSink == InitSink /\ [][NextSink]_vars

InitPipeline ==
    /\ SearchIdle
    /\ LookupIdle
    /\ ReconcileIdle
    /\ BatchIdle
    /\ SinkIdle
    /\ VerifyIdle
    /\ p_pc = "env"
    /\ p_env \in [YELP_API_KEY : EnvValues, GOOGLE_API_KEY : EnvValues]
    /\ p_steps = {}
    /\ p_search_failed = FALSE
    /\ p_found = 0
    /\ p_outcome = NoOutcome

NextPipeline ==
    \/ PipeFromEnv
    \/ PipeStartRun
    \/ BF_Page \/ BF_PageError \/ BF_Return
    \/ PipeAfterSearch
    \/ \E t \in DOMAIN task : StartTask(t)
    \/ \E t \in DOMAIN task : LookupEnter(t)
    \/ \E t \in DOMAIN task : PlacesRaises(t)
    \/ \E t \in DOMAIN task : PlacesNoResults(t)
    \/ \E t \in DOMAIN task : PlacesFound(t)
    \/ \E t \in DOMAIN task : DetailsRaises(t)
    \/ \E t \in DOMAIN task : DetailsFound(t)
    \/ \E t \in DOMAIN task : LookupExcept(t)
    \/ \E t \in DOMAIN task : SingleVerify(t)
    \/ \E t \in DOMAIN task : SingleExcept(t)
    \/ \E t \in DOMAIN task : Collect(t)
    \/ BatchReturn
    \/ PipeExport

SpecPipeline == InitPipeline /\ [][NextPipeline]_vars

(***************************************************************************)
(* A batch larger than the worker pool: process_business_batch over        *)
(* PoolBatch listings.  The listings carry no location, so every task      *)
(* ends in the handler of _process_single_business without a lookup.       *)
(***************************************************************************)
\* the i-th listing of the large batch
PoolListing(i) == YelpListing(<<"y", i>>, <<"A">>, NoLocation, Missing)

InitPool ==
    /\ SearchIdle
    /\ ReconcileIdle
    /\ SinkIdle
    /\ VerifyIdle
    /\ PipeIdle
    /\ b_pc = "running"
    /\ yelp_businesses = [i \in 1..PoolBatch |-> PoolListing(i)]
    /\ verified_businesses = <<>>
    /\ google_cache = EmptyMap
    /\ google_api_calls = 0
    /\ task = [i \in 1..Len(yelp_businesses) |->
                  [IdleTask EXCEPT !.pc = "queued",
                                   !.listing = yelp_businesses[i]]]
    /\ lookups = 0
    /\ first = EmptyMap
    /\ error_cached = {}

NextPool ==
    \/ \E t \in DOMAIN task : StartTask(t)
    \/ \E t \in DOMAIN task : SingleExcept(t)
    \/ \E t \in DOMAIN task : Collect(t)
    \/ BatchReturn

SpecPool == InitPool /\ [][NextPool]_vars

InitVerify ==
    /\ SearchIdle
    /\ LookupIdle
    /\ ReconcileIdle
    /\ BatchIdle
    /\ SinkIdle
    /\ VerifyIdle
    /\ PipeIdle

NextVerify == VerifyStart \/ VerifyRespond \/ VerifyReset

SpecVerify == InitVerify /\ [][NextVerify]_vars

(***************************************************************************)
(* Claims about the directory search.                                      *)
(***************************************************************************)
RECURSIVE ConcatPages(_, _)
\* the pages of the first n requests, concatenated in request order
ConcatPages(reqs, n) ==
    IF n = 0 THEN <<>> ELSE ConcatPages(reqs, n - 1) \o reqs[n].page

MapProcess(page) == [i \in 1..Len(page) |-> ProcessBusiness(page[i])]

\* what the caller should hold of the first n pages, in the client's format
Accumulated(n) ==
    IF client = "YelpAPIClient" THEN MapProcess(ConcatPages(requests, n))
                                ELSE ConcatPages(requests, n)

\* C1: for every max_results N > 0 and every sequence of page responses
\* (full, short, empty, over-full pages, failures) either search returns a
\* list of at most N listings.
C1_AtMostMaxResults ==
    s_pc = "returned" => Len(returned) <= max_results

\* C1 witness: more listings than max_results were accumulated and the
\* returned list was cut to exactly max_results.
C1_Witness ==
    /\ s_pc = "returned" /\ client = "BusinessFinder"
    /\ Len(all_businesses) > max_results
    /\ Len(returned) = max_results
    /\ Len(requests) >= 2

\* C9: a failed page request is the last request of the search (no retry, no
\* later page), the search does not raise because of it, and it returns
\* exactly the listings of the pages fetched before the failure, cut to
\* max_results.
C9_FailureStopsPagination ==
    \A i \in 1..Len(requests) :
        ~requests[i].ok =>
            /\ i = Len(requests)
            /\ s_pc # "raised"
            /\ s_pc = "returned" =>
                  returned = Take(Accumulated(i - 1), max_results)

\* C9 witness: the second or a later page failed after listings had been
\* accumulated, and the search has returned them.
C9_Witness ==
    /\ s_pc = "returned"
    /\ Len(requests) >= 2
    /\ ~requests[Len(requests)].ok
    /\ returned # <<>>

(***************************************************************************)
(* Claims about the cross-reference lookup, for lookups issued one after   *)
(* another on one BusinessFinder.                                          *)
(***************************************************************************)
\* the lookup of caller t has returned, and a lookup of the same key had
\* completed before it started (no cache clear in between)
RepeatedLookup(t) ==
    /\ task[t].pc = "lookup_returned"
    /\ task[t].prior
    /\ task[t].cache_key \in DOMAIN first

\* C2: once a lookup of a (name, address) pair has completed, every later
\* lookup of the pair (no cache clear in between) issues zero upstream calls
\* and returns the value the first lookup cached, also when that value is
\* the negative result None.
C2_RepeatHitsCache ==
    \A t \in DOMAIN task :
        RepeatedLookup(t) =>
            /\ task[t].upstream = 0
            /\ task[t].google_data = first[task[t].cache_key].value

\* C2 witness: a repeated lookup returned the cached None of a first lookup
\* that found no match, and the finder has issued just that one place search.
C2_Witness ==
    \E t \in DOMAIN task :
        /\ RepeatedLookup(t)
        /\ first[task[t].cache_key].value = GoogleNone
        /\ ~first[task[t].cache_key].failed
        /\ task[t].google_data = GoogleNone
        /\ google_api_calls = 1

\* C10: an error raised in the place search or in the detail fetch is caught
\* inside the lookup: the lookup returns None instead of raising, None is
\* cached under the lookup's key, and the next lookup of that key issues no
\* upstream call.
C10_LookupErrorCachedNegative ==
    \A t \in DOMAIN task :
        /\ task[t].failed =>
              /\ task[t].pc \in {"except", "lookup_returned"}
              /\ task[t].pc = "lookup_returned" =>
                    /\ task[t].google_data = GoogleNone
                    /\ task[t].cache_key \in DOMAIN google_cache
                    /\ google_cache[task[t].cache_key] = GoogleNone
        /\ (RepeatedLookup(t) /\ first[task[t].cache_key].failed) =>
              /\ task[t].upstream = 0
              /\ task[t].google_data = GoogleNone

\* C10 witness: a lookup whose detail fetch failed was followed by a lookup
\* of the same key, which returned None without an upstream call.
C10_Witness ==
    \E t \in DOMAIN task :
        /\ RepeatedLookup(t)
        /\ first[task[t].cache_key].failed
        /\ task[t].upstream = 0
        /\ google_api_calls = 1

(***************************************************************************)
(* Claims about reconciliation.                                            *)
(***************************************************************************)
\* the cross-reference record reports permanent closure
ReportsClosure ==
    /\ google_data.kind = "dict"
    /\ google_data.business_status = Str("CLOSED_PERMANENTLY")

\* the cross-reference record is present and carries a phone
CarriesPhone ==
    /\ google_data.kind = "dict"
    /\ google_data.formatted_phone_number \notin {Missing, None, <<>>}

\* the listing has no phone: the key is absent, None, or the empty string
ListingHasNoPhone == yelp_data.phone \in {Missing, None, <<>>}

\* C6: for every listing whose cross-reference record reports permanent
\* closure, the reconciled output has confidence level "high" and status
\* flag "closed".
C6_ClosureIsHighClosed ==
    (rec_pc = "verified" /\ ReportsClosure) =>
        /\ verified_business.confidence_level = Str("high")
        /\ verified_business.business_status = Str("closed")

\* C6 witness: a listing with a phone of its own was reconciled with a
\* record that reports permanent closure.
C6_Witness ==
    /\ rec_pc = "verified" /\ ReportsClosure
    /\ ~ListingHasNoPhone
    /\ verified_business.business_status = Str("closed")

\* C7: for a listing without a phone the output phone is the cross-reference
\* phone when a record is present and carries one, and is empty otherwise; a
\* phone the listing has is never replaced.
C7_PhoneBackfill ==
    rec_pc = "verified" =>
        IF ListingHasNoPhone
          THEN IF CarriesPhone
                 THEN verified_business.phone_number
                          = google_data.formatted_phone_number
                 ELSE verified_business.phone_number \in {None, <<>>}
          ELSE verified_business.phone_number = yelp_data.phone

\* C7 witness: a listing with no phone key, cross-referenced to a record with
\* phone 615-555-0100, yields that phone.
C7_Witness ==
    /\ rec_pc = "verified"
    /\ yelp_data.phone = Missing
    /\ google_data.kind = "dict"
    /\ google_data.formatted_phone_number = <<"615-555-0100">>
    /\ verified_business.phone_number = <<"615-555-0100">>

\* C8: every VerifiedBusiness has a confidence level in {low, medium, high};
\* it is "high" only when the record reports permanent closure, and without a
\* record or without a closure signal it is "medium" with status "unknown".
C8_ConfidenceLevels ==
    rec_pc = "verified" =>
        /\ verified_business.confidence_level
              \in {Str("low"), Str("medium"), Str("high")}
        /\ verified_business.confidence_level = Str("high") => ReportsClosure
        /\ ~ReportsClosure =>
              /\ verified_business.confidence_level = Str("medium")
              /\ verified_business.business_status = Str("unknown")

\* C8 witness: a record for an operating place that carries a phone leaves
\* the confidence at medium and the status at unknown.
C8_Witness ==
    /\ rec_pc = "verified"
    /\ google_data.kind = "dict"
    /\ google_data.business_status = Str("OPERATIONAL")
    /\ CarriesPhone
    /\ verified_business.confidence_level = Str("medium")
    /\ verified_business.business_status = Str("unknown")

(***************************************************************************)
(* Claims about the batch.                                                 *)
(***************************************************************************)
\* the tasks whose future holds a VerifiedBusiness
Succeeded == {t \in DOMAIN task : task[t].result.kind = "VerifiedBusiness"}

\* the batch result holds the VerifiedBusiness of every task of ts, and
\* nothing else
ReturnsExactly(ts) ==
    /\ Len(verified_businesses) = Cardinality(ts)
    /\ \A t \in ts :
          Cardinality({i \in DOMAIN verified_businesses :
                          verified_businesses[i] = task[t].result})
            = Cardinality({u \in ts : task[u].result = task[t].result})

\* C3 as stated: an exception raised while reconciling a listing, a failure
\* inside the cross-reference lookup included, drops that listing (it
\* contributes no VerifiedBusiness) and only that listing.
C3_AsStated ==
    b_pc = "returned" =>
        /\ \A t \in DOMAIN task :
              (task[t].exc \/ task[t].failed) => task[t].result = NoBusiness
        /\ ReturnsExactly({t \in DOMAIN task : ~task[t].exc /\ ~task[t].failed})

\* C3 as amended: an exception that escapes the lookup while a listing is
\* reconciled (a listing whose location, name or address is None) drops that
\* listing and only that one; a failure inside the place search or the
\* detail fetch is absorbed by the lookup, and the listing still yields a
\* VerifiedBusiness, reconciled without cross-reference data; the batch
\* returns the VerifiedBusiness of every listing that was not dropped.
C3_PerItemIsolation ==
    b_pc = "returned" =>
        /\ \A t \in DOMAIN task :
              /\ task[t].exc => task[t].result = NoBusiness
              /\ ~task[t].exc =>
                    /\ task[t].result.kind = "VerifiedBusiness"
                    /\ task[t].result.name = task[t].listing.name
              /\ (task[t].failed /\ ~task[t].exc) =>
                    /\ task[t].result.confidence_level = Str("medium")
                    /\ task[t].result.business_status = Str("unknown")
        /\ ReturnsExactly({t \in DOMAIN task : ~task[t].exc})

\* C3 witness: a batch of two has returned; one listing raised and was
\* dropped, the lookup of the other failed and it is in the result.
C3_Witness ==
    /\ b_pc = "returned"
    /\ Len(yelp_businesses) = 2
    /\ \E t, u \in DOMAIN task :
          /\ task[t].exc /\ task[t].result = NoBusiness
          /\ task[u].failed /\ ~task[u].exc
          /\ verified_businesses = <<task[u].result>>

(***************************************************************************)
(* Claims about the result sink.                                           *)
(***************************************************************************)
\* the listings the current request loops over
CurrentSlice == PageSlice(sink_businesses, sink_page, sink_size)

\* C4: ingesting the same batch of listings twice leaves the same number of
\* stored business records as ingesting it once: a request that resubmits
\* the previous request's listings adds no row.
C4_IngestIdempotent ==
    repeat => Len(db_businesses) = stored_before

\* C4 witness: a request stored rows, the same request was served again to
\* its end, and the table holds what it held after the first.
C4_Witness ==
    /\ repeat /\ sink_pc = "ok"
    /\ Len(results) = 2
    /\ Len(db_businesses) = 2
    /\ stored_before = 2
    /\ ingests = 2

\* C5: after any sequence of ingests the table holds at most one row per
\* external identifier, and that row is the one the first ingest of the
\* identifier wrote: a later listing with a known identifier changes nothing.
C5_OneRowPerIdFirstWriteWins ==
    /\ \A i, j \in DOMAIN db_businesses :
          db_businesses[i].yelp_id = db_businesses[j].yelp_id => i = j
    /\ \A i \in DOMAIN db_businesses :
          /\ db_businesses[i].yelp_id \in DOMAIN first_row
          /\ db_businesses[i] = first_row[db_businesses[i].yelp_id]

\* C5 witness: a listing whose identifier was known and whose name differs
\* from the stored one was looped over, and the stored row was kept.
C5_Witness ==
    \E k \in DOMAIN results :
        /\ k <= Len(CurrentSlice)
        /\ results[k].yelp_id = CurrentSlice[k].id
        /\ results[k].name # CurrentSlice[k].name
        /\ results[k] \in {db_businesses[i] : i \in DOMAIN db_businesses}
(***************************************************************************)
(* Claims about the end of the pagination.                                 *)
(***************************************************************************)
\* the page-size cap of the client in use
PageSizeCap == IF client = "YelpAPIClient" THEN DEFAULT_LIMIT ELSE YelpPageCap

\* the i-th request is one after which the search must stop: its page is
\* empty or shorter than the page-size cap, or the listings accumulated up
\* to it reach max_results
StopPage(i) ==
    \/ Len(requests[i].page) = 0
    \/ Len(requests[i].page) < PageSizeCap
    \/ Len(Accumulated(i)) >= max_results

\* C12: a page with zero listings, a page with fewer listings than the
\* page-size cap, and a page with which the accumulated count reaches
\* max_results are each the last request of the search.
C12_StopsPaginating ==
    \A i \in 1..Len(requests) : StopPage(i) => i = Len(requests)

\* C12 witness: a search that needed two pages got a full first page and a
\* short, non-empty second one, and returned without a third request.
C12_Witness ==
    /\ s_pc = "returned"
    /\ Len(requests) = 2
    /\ ~StopPage(1)
    /\ requests[2].ok
    /\ Len(requests[2].page) \in 1..(requests[2].limit - 1)
    /\ Len(Accumulated(2)) < max_results

(***************************************************************************)
(* Claims about the upstream calls of a lookup.                            *)
(***************************************************************************)
\* C11 as stated: a lookup that misses the cache issues exactly two upstream
\* calls, and a lookup that hits the cache issues none.
C11_AsStated ==
    \A t \in DOMAIN task :
        task[t].pc = "lookup_returned" =>
            task[t].upstream = (IF task[t].hit THEN 0 ELSE 2)

\* C11: a lookup that hits the cache issues no upstream call; a lookup that
\* misses issues one place search, followed by one detail fetch exactly when
\* the search returned a place: two calls when a place was found, one when
\* the search had no result or failed.
C11_UpstreamCallsPerLookup ==
    \A t \in DOMAIN task :
        /\ task[t].hit => task[t].upstream = 0 /\ task[t].pc = "lookup_returned"
        /\ task[t].pc = "details" => task[t].upstream = 1 /\ task[t].found
        /\ task[t].pc = "lookup_returned" /\ ~task[t].hit =>
              task[t].upstream = (IF task[t].found THEN 2 ELSE 1)

\* C11 witness: after a miss that found no place (one call) and a miss that
\* fetched the details (two calls), a third lookup is answered by the cache.
C11_Witness ==
    \E t \in DOMAIN task :
        /\ task[t].pc = "lookup_returned"
        /\ task[t].hit
        /\ task[t].upstream = 0
        /\ google_api_calls = 3
        /\ \E k \in DOMAIN google_cache : google_cache[k] = GoogleNone
        /\ \E k \in DOMAIN google_cache : google_cache[k] # GoogleNone
(***************************************************************************)
(* Claims about the address verification.                                  *)
(***************************************************************************)
\* verify_address was called and has returned to verify_business_address
Verified == vf_pc = "returned" /\ vf_requests = 1

\* the response carries a first candidate with this match code
FirstMatchCode(codes) ==
    /\ vf_response.kind = "candidates"
    /\ ~vf_response.empty
    /\ vf_response.first.analysis.dpv_match_code \in codes

\* C13: verify_address never raises; for a transport error and for any other
\* exception raised while requesting or interpreting the response it returns
\* status "error", verified false, confidence 0.0, empty verified address
\* fields and a non-empty error string.
C13_VerifyAddressNeverRaises ==
    /\ vf_pc # "raised"
    /\ (Verified /\ (\/ vf_response.kind \in {"request_exception", "value_error"}
                     \/ vf_response.kind = "object" /\ ~vf_response.empty)) =>
          /\ ~vf_result.raised
          /\ vf_result.status = "error"
          /\ vf_result.verified = FALSE
          /\ vf_result.confidence = 0
          /\ vf_result.verified_address = None
          /\ vf_result.verified_city = None
          /\ vf_result.error \notin {None, Missing, <<>>}

\* C13 witness: the body was a JSON object, which verify_address cannot
\* index as a list; the caller holds an "error" result.
C13_Witness ==
    /\ Verified
    /\ vf_response.kind = "object" /\ ~vf_response.empty
    /\ vf_result.status = "error"
    /\ "verification_error" \in vf_returned.keys

\* C14: the result is verified with status "verified" exactly when the first
\* candidate's match code is Y, S or D; any other match code, a missing one
\* and an empty candidate list give verified false, status "invalid" and
\* confidence 0.0; verified is true iff status is "verified".
C14_VerifiedIffDeliverable ==
    Verified =>
        /\ vf_result.verified <=> FirstMatchCode({Str("Y"), Str("S"), Str("D")})
        /\ vf_result.verified <=> vf_result.status = "verified"
        /\ (/\ vf_response.kind = "candidates"
            /\ ~FirstMatchCode({Str("Y"), Str("S"), Str("D")})) =>
              /\ vf_result.verified = FALSE
              /\ vf_result.status = "invalid"
              /\ vf_result.confidence = 0

\* C14 witness: a first candidate with match code D was verified.
C14_Witness ==
    /\ Verified
    /\ FirstMatchCode({Str("D")})
    /\ vf_result.verified
    /\ vf_returned.address_verification_status = "verified"

\* the table value of a match code, in thousandths
TableValue(code) ==
    IF code = Str("Y") THEN 1000 ELSE IF code = Str("S") THEN 900 ELSE 800

\* the flag of the first candidate's analysis is set
FlagSet(flag) == flag = PyTrue

\* C15: the confidence of a verified address is the table value of its match
\* code (Y 1.0, S 0.9, D 0.8) times 0.7 when the vacant flag is set and
\* times 0.9 when the CMRA flag is set; it lies in [0, 1], is positive, and
\* is exactly 1.0 for Y with no flag set.
C15_ConfidenceOfVerified ==
    (Verified /\ vf_result.verified) =>
        LET analysis == vf_response.first.analysis
            vacant == IF FlagSet(analysis.dpv_vacant) THEN 7 ELSE 10
            cmra == IF FlagSet(analysis.dpv_cmra) THEN 9 ELSE 10
        IN /\ vf_result.confidence * 100 =
                  TableValue(analysis.dpv_match_code) * vacant * cmra
           /\ vf_result.confidence \in 1..1000
           /\ (/\ analysis.dpv_match_code = Str("Y")
               /\ ~FlagSet(analysis.dpv_vacant)
               /\ ~FlagSet(analysis.dpv_cmra)) => vf_result.confidence = 1000

\* C15 witness: a secondary-address match that is vacant and a CMRA has
\* confidence 0.9 * 0.7 * 0.9 = 0.567.
C15_Witness ==
    /\ Verified /\ vf_result.verified
    /\ FirstMatchCode({Str("S")})
    /\ FlagSet(vf_response.first.analysis.dpv_vacant)
    /\ FlagSet(vf_response.first.analysis.dpv_cmra)
    /\ vf_result.confidence = 567

\* a credential or an address field that is absent or empty
Empty(v) == v \in {Missing, None, <<>>}

\* a credential is absent, or one of street, city, state, zip is empty
NothingToVerify ==
    \/ Empty(vf_env.auth_id) \/ Empty(vf_env.auth_token)
    \/ Empty(vf_passed.location.address1) \/ Empty(vf_passed.location.city)
    \/ Empty(vf_passed.location.state) \/ Empty(vf_passed.location.zip_code)

EndedUnfailed(t) ==
    /\ task[t].pc \in {"finished", "collected"}
    /\ ~task[t].exc
    /\ ~task[t].failed

\* the lower-cased name and address of a listing, joined by "_"
ListingKey(listing) ==
    Lower(listing.name) \o <<"_">> \o Lower(listing.location.address1)

\* the lookup of listing u failed, and u is another listing than t with
\* the same lower-cased name and address
FailedTwin(t, u) ==
    /\ u # t
    /\ task[u].failed
    /\ ListingKey(task[u].listing) = ListingKey(task[t].listing)

\* C19 as stated: a sibling whose own task met no failure is reconciled as
\* it would be without the failing listing, so never against the None that
\* the failing listing's lookup left in the cache, even when it has the
\* failing listing's name and address.
C19_AsStated ==
    \A t \in DOMAIN task : EndedUnfailed(t) => ~task[t].poisoned

\* C19 as amended: a failing task cancels no sibling, and a sibling is
\* reconciled against the None left by a failed lookup only when the failed
\* lookup was for the same lower-cased name and address (the same cache
\* key); every other sibling is reconciled against what the mapping API
\* answered for it or for its key.
C19_SiblingIsolation ==
    /\ b_pc = "returned" =>
          \A t \in DOMAIN task : ~task[t].exc => task[t].result \in
                {verified_businesses[i] : i \in DOMAIN verified_businesses}
    /\ \A t \in DOMAIN task :
          EndedUnfailed(t) =>
             /\ task[t].result =
                   MakeVerifiedBusiness(
                       FastVerify(task[t].listing, task[t].google_data))
             /\ task[t].poisoned =>
                   /\ task[t].google_data = GoogleNone
                   /\ \E u \in DOMAIN task : FailedTwin(t, u)

\* C19 witness: the batch has returned both listings; the lookup of one
\* failed, and its twin, whose own task met no failure, was reconciled
\* against the cached None.
C19_Witness ==
    /\ b_pc = "returned"
    /\ Len(verified_businesses) = 2
    /\ \E t, u \in DOMAIN task :
          /\ EndedUnfailed(t)
          /\ task[t].poisoned
          /\ FailedTwin(t, u)
          /\ task[t].result.confidence_level = Str("medium")
(***************************************************************************)
(* Claims about the pipeline.                                              *)
(***************************************************************************)
\* find_and_export_businesses has ended
RunEnded == p_pc \in {"returned", "raised"}

\* the directory answered every request and had no listing at all
GenuinelyZero == RunEnded /\ p_found = 0 /\ ~p_search_failed

\* the run ended in an error: a directory request failed, or the batch ran
\* and every listing failed reconciliation
EndedInError ==
    /\ RunEnded
    /\ \/ p_search_failed
       \/ /\ "lookup" \in p_steps
          /\ \A t \in DOMAIN task : task[t].exc

\* C17 as stated: a run that found the directory genuinely empty returns
\* the empty path, and no run that ended in an error (a failed directory
\* request, or every listing failing reconciliation) gives its caller that
\* same result.
C17_AsStated ==
    /\ GenuinelyZero => p_outcome = Returns(<<>>)
    /\ EndedInError => p_outcome # Returns(<<>>)

\* C18 as stated: find_and_export_businesses raises for no failure of a
\* leaf collaborator (a failed directory page, a failed lookup, a listing
\* whose reconciliation raised, every listing dropped); it raises only when
\* the workbook cannot be saved.
C18_AsStated ==
    p_pc = "raised" => p_outcome.exc = "OSError"

\* C20: when the directory key or the mapping key is absent from the
\* environment (or empty), from_env raises ValueError and creates no finder,
\* and no search, lookup or export step runs.
C20_FromEnvRequiresBothKeys ==
    (p_pc # "env" /\ (Empty(p_env.YELP_API_KEY) \/ Empty(p_env.GOOGLE_API_KEY))) =>
        /\ p_pc = "no_finder"
        /\ p_outcome = Raises("ValueError")
        /\ p_steps = {}
        /\ s_pc = "idle" /\ requests = <<>>
        /\ b_pc = "idle" /\ task = <<>>
        /\ google_api_calls = 0

\* C20 witness: the directory key is set and the mapping key is absent;
\* from_env has raised ValueError.
C20_Witness ==
    /\ p_pc = "no_finder"
    /\ ~Empty(p_env.YELP_API_KEY)
    /\ p_env.GOOGLE_API_KEY = Missing
    /\ p_outcome = Raises("ValueError")
(***************************************************************************)
(* Claims about concurrent lookups of one key.                             *)
(***************************************************************************)
\* the lookups of listings t and u are for the same cache key
SameKey(t, u) ==
    /\ t # u
    /\ task[t].cache_key # <<>>
    /\ task[t].cache_key = task[u].cache_key

\* C21 as stated: of the workers of a batch that look up the same cache key
\* at most one issues upstream calls, so at most one place search is issued
\* for a key.
C21_AsStated ==
    \A t, u \in DOMAIN task :
        SameKey(t, u) => ~(task[t].upstream >= 1 /\ task[u].upstream >= 1)

\* C21 as amended: a lookup issues at most one place search and one detail
\* fetch, and a lookup that starts after a lookup of its key has completed
\* issues no upstream call; duplicate calls for a key come only from
\* lookups that checked the cache before any of them had stored a result.
C21_DuplicateCallsOnlyInRace ==
    \A t \in DOMAIN task :
        /\ task[t].upstream <= 2
        /\ task[t].prior => task[t].upstream = 0
        /\ \A u \in DOMAIN task :
              (SameKey(t, u) /\ task[t].upstream >= 1 /\ task[u].upstream >= 1)
                 => ~task[t].prior /\ ~task[u].prior

\* C21 witness: the batch has returned, and two workers each issued a place
\* search for the key they share.
C21_Witness ==
    /\ b_pc = "returned"
    /\ \E t, u \in DOMAIN task :
          /\ SameKey(t, u)
          /\ task[t].upstream >= 1 /\ task[u].upstream >= 1
          /\ google_api_calls >= 2

\* every task of the batch has ended
AllEnded == \A t \in DOMAIN task : task[t].pc \in {"finished", "collected"}

\* the cache keys the lookups of the batch used
BatchKeys == {task[t].cache_key : t \in DOMAIN task} \ {<<>>}

\* the lookups of key k, and those of them that missed and went upstream
LookupsOf(k) == {t \in DOMAIN task : task[t].cache_key = k}
WentUpstream(k) == {t \in LookupsOf(k) : task[t].upstream >= 1}

\* C22 as stated: once the concurrent lookups of a key have all finished,
\* the value cached for the key is the one value a single lookup would have
\* cached, and every one of the lookups returned that value.
C22_AsStated ==
    AllEnded =>
        \A k \in BatchKeys :
            /\ k \in DOMAIN google_cache
            /\ \A t \in LookupsOf(k) : task[t].google_data = google_cache[k]

\* C22 as amended: once the concurrent lookups of a key have all finished,
\* the key is cached, the cached value and every returned value is one that
\* a lookup which went upstream obtained, and when the upstream gave every
\* such lookup the same answer, the cache holds that answer and every
\* lookup returned it.
C22_ConvergesOnEqualAnswers ==
    AllEnded =>
        \A k \in BatchKeys :
            /\ k \in DOMAIN google_cache
            /\ WentUpstream(k) # {}
            /\ \E u \in WentUpstream(k) : google_cache[k] = task[u].google_data
            /\ \A t \in LookupsOf(k) :
                  \E u \in WentUpstream(k) :
                      task[t].google_data = task[u].google_data
            /\ (\A u, v \in WentUpstream(k) :
                      task[u].google_data = task[v].google_data)
                  => \A t \in LookupsOf(k) :
                        task[t].google_data = google_cache[k]

\* C22 witness: two lookups of one key raced, both went upstream and got the
\* same detail record, which is what the cache holds.
C22_Witness ==
    /\ AllEnded
    /\ \E t, u \in DOMAIN task :
          /\ SameKey(t, u)
          /\ task[t].upstream = 2 /\ task[u].upstream = 2
          /\ ~task[t].failed /\ ~task[u].failed
          /\ task[t].google_data = task[u].google_data
          /\ google_cache[task[t].cache_key] = task[t].google_data

(***************************************************************************)
(* Claims about the result of a batch.                                     *)
(***************************************************************************)
\* the upstream gave the same answer to every lookup of the same key
AnswersDependOnKey ==
    \A k \in BatchKeys :
        \A u, v \in WentUpstream(k) : task[u].google_data = task[v].google_data

\* C24: process_business_batch returns only after every submitted task has
\* completed; its result holds exactly one VerifiedBusiness for each listing
\* whose reconciliation succeeded and none for a listing whose
\* reconciliation raised; when the upstream answers depend only on the
\* lookup key, each VerifiedBusiness is the reconciliation of its listing
\* with the answer for its key, whatever the interleaving of the workers.
C24_BatchResult ==
    b_pc = "returned" =>
        /\ \A t \in DOMAIN task : task[t].pc = "collected"
        /\ DOMAIN task = DOMAIN yelp_businesses
        /\ \A t \in DOMAIN task :
              /\ task[t].listing = yelp_businesses[t]
              /\ task[t].exc => task[t].result = NoBusiness
              /\ ~task[t].exc => task[t].result.kind = "VerifiedBusiness"
        /\ ReturnsExactly({t \in DOMAIN task : ~task[t].exc})
        /\ AnswersDependOnKey =>
              \A t \in DOMAIN task :
                  ~task[t].exc =>
                      /\ task[t].cache_key \in DOMAIN google_cache
                      /\ task[t].result =
                            MakeVerifiedBusiness(
                                FastVerify(yelp_businesses[t],
                                           google_cache[task[t].cache_key]))

\* C24 witness: a batch of two listings with the same key has returned; the
\* workers raced, both got the same detail record, and the result holds the
\* VerifiedBusiness of each.
C24_Witness ==
    /\ b_pc = "returned"
    /\ Len(verified_businesses) = 2
    /\ AnswersDependOnKey
    /\ \E t, u \in DOMAIN task :
          /\ SameKey(t, u)
          /\ task[t].upstream = 2 /\ task[u].upstream = 2
          /\ ~task[t].failed /\ ~task[u].failed
          /\ task[t].result # task[u].result

(***************************************************************************)
(* Claims about the call counter.                                          *)
(***************************************************************************)
RECURSIVE UpstreamCalls(_)
\* the place searches and detail fetches issued by the first n tasks
UpstreamCalls(n) ==
    IF n = 0 THEN 0 ELSE task[n].upstream + UpstreamCalls(n - 1)

\* C25 as stated: after a batch has completed, google_api_calls equals the
\* number of place searches and detail fetches issued since the counter was
\* reset, the calls that failed included.
C25_AsStated ==
    b_pc = "returned" => google_api_calls = UpstreamCalls(Len(task))

(***************************************************************************)
(* Claims about the offsets and the length of the pagination.              *)
(***************************************************************************)
\* C26: in search_yelp_businesses the first page is requested at offset 0
\* and every later page at the total number of listings of all earlier
\* pages, so the accumulated list is the directory's positions 1, 2, ... in
\* order, none skipped and none twice, and the returned list is its first
\* max_results elements.
C26_OffsetsAreRunningTotals ==
    client = "BusinessFinder" =>
        /\ \A i \in 1..Len(requests) :
              requests[i].offset = Len(ConcatPages(requests, i - 1))
        /\ all_businesses = ConcatPages(requests, Len(requests))
        /\ \A j \in 1..Len(all_businesses) : all_businesses[j].id = j
        /\ s_pc = "returned" =>
              returned = Take(ConcatPages(requests, Len(requests)), max_results)

\* C26 witness: a search has returned after two pages, the first of them
\* over-full, the second requested where the first ended, and the list was
\* cut.
C26_Witness ==
    /\ client = "BusinessFinder" /\ s_pc = "returned"
    /\ Len(requests) = 2
    /\ Len(requests[1].page) > requests[1].limit
    /\ requests[2].offset = Len(requests[1].page)
    /\ Len(requests[2].page) >= 1
    /\ requests[2].page[1].id = requests[2].offset + 1
    /\ Len(returned) = max_results
    /\ Len(all_businesses) > max_results

\* no page so far holds more listings than the limit its request asked for
PagesWithinLimit ==
    \A i \in 1..Len(requests) : Len(requests[i].page) <= requests[i].limit

\* ceil(max_results / min(50, max_results))
PageBound ==
    LET per_page == Min(50, max_results)
    IN (max_results + per_page - 1) \div per_page

\* C27: when no page holds more listings than the requested limit,
\* search_yelp_businesses issues at most ceil(max_results / min(50,
\* max_results)) page requests and its loop is over once that many were
\* issued; a first page of exactly max_results <= 50 listings is the only
\* request.
C27_BoundedPagination ==
    (client = "BusinessFinder" /\ PagesWithinLimit) =>
        /\ Len(requests) <= PageBound
        /\ Len(requests) = PageBound =>
              \/ s_pc \in {"break", "returned"}
              \/ s_pc = "loop" /\ Len(all_businesses) >= max_results
        /\ (/\ max_results <= 50
            /\ Len(requests) >= 1
            /\ Len(requests[1].page) = max_results) =>
              /\ Len(requests) = 1
              /\ s_pc \in {"loop", "returned"}
              /\ Len(all_businesses) >= max_results

\* C27 witness: a search for 101 listings has returned after three full
\* pages, which is ceil(101 / 50).
C27_Witness ==
    /\ client = "BusinessFinder" /\ s_pc = "returned"
    /\ PagesWithinLimit
    /\ max_results = 2 * YelpPageCap + 1
    /\ Len(requests) = 3
    /\ PageBound = 3

(***************************************************************************)
(* Claims about the listing a pipeline operation is given.                 *)
(***************************************************************************)
\* C28 as stated: after verify_business_address has returned, the listing
\* passed in has exactly the keys and values it had before the call.
C28_AsStated ==
    vf_pc = "returned" => vf_business = vf_passed

(***************************************************************************)
(* Claims about which lookups share a cache entry.                         *)
(***************************************************************************)
\* C30 as stated: a lookup that is served from the cache receives a record
\* that was cached for its own name and address, letter case ignored.
C30_AsStated ==
    \A t \in DOMAIN task :
        (task[t].pc = "lookup_returned" /\ task[t].hit
            /\ task[t].cache_key \in DOMAIN first) =>
            /\ Lower(first[task[t].cache_key].business_name)
                  = Lower(task[t].business_name)
            /\ Lower(first[task[t].cache_key].address) = Lower(task[t].address)

(***************************************************************************)
(* Claims about the worker pool.                                           *)
(***************************************************************************)
\* the tasks that have completed
Completed == {t \in DOMAIN task : task[t].pc \in {"finished", "collected"}}

\* the tasks a worker has taken
Started == {t \in DOMAIN task : task[t].pc # "queued"}

\* C23: at every moment of process_business_batch at most 10 reconciliation
\* tasks are running, whatever the size of the batch; a listing beyond the
\* tenth has started only if a task that was running has finished.
C23_AtMostTenRunning ==
    /\ Cardinality(Running) <= 10
    /\ Cardinality(Started) <= 10 + Cardinality(Completed)
    /\ \A t \in DOMAIN task :
          (t > 10 /\ t \in Started) => Completed # {}

\* C23 witness: in a batch of more than ten listings ten tasks are running,
\* the eleventh among them, after one of the first ten has finished.
C23_Witness ==
    /\ Len(yelp_businesses) > 10
    /\ Cardinality(Running) = 10
    /\ 11 \in Running
    /\ Cardinality(Completed) = 1

(***************************************************************************)
(* Claims about the search radius.                                         *)
(***************************************************************************)
\* r is an integer nearest to tenths/10 miles * 1609.34, a tie going either
\* way: the distance of 1000 * r from tenths * 160934 is at most 500
NearestMeters(r, tenths) ==
    LET exact == tenths * MetersPerMile
    IN /\ 1000 * r - exact <= 500
       /\ exact - 1000 * r <= 500

\* C29 as stated: for every radius in (0, 100] miles, the radius in meters
\* sent to the directory API is miles * 1609.34 rounded to the nearest
\* integer.
C29_AsStated ==
    client = "BusinessFinder" =>
        \A i \in 1..Len(requests) :
            NearestMeters(requests[i].radius, distance_miles)
====
